---- MODULE Spec2Model ----
(***************************************************************************)
(* A model of the ATmega32U4 USB device driver UsbdBus                     *)
(* (mcu/atmega-hal/src/usb.rs): the endpoint table filled by alloc_ep and  *)
(* the register traffic of enable, reset, configure_endpoint, write, read   *)
(* and poll.                                                               *)
(***************************************************************************)
EXTENDS Integers, Sequences, FiniteSets, TLC

VARIABLES
    endpoints,   \* UsbdBus.endpoints: slot index -> None or an EndpointTableEntry
    alloc_log,   \* history: every alloc_ep call made so far, with what it returned
    clock,       \* the CLOCKUSB type parameter of UsbdBus: "MHz16" or "MHz8"
    hw,          \* the PLL and USB_DEVICE register blocks the driver owns
    trace,       \* the register accesses of the operation in progress, or of the
                 \* last one run when no event of the bus has followed it
    op,          \* the operation in progress, or the last one run ("enable",
                 \* "reset", "write", ...); "event" after an event of the bus
    pc,          \* the driver's position inside op; "idle" between operations
    cur,         \* the index the active_endpoints() iterator of op stands at
    enabled,     \* enable() has returned
    pending_ins, \* UsbdBus.pending_ins: a u8, bit i set by a successful write to i
    args,        \* the arguments of the write or read that op is: ep_addr, buf,
                 \* and filled, the buffer as the call has left it
    ret,         \* what the write, read or poll that op is has returned
    unreported   \* history: the endpoints with a successful write that no poll
                 \* has reported in ep_in_complete since

\* what alloc_ep never touches
hwvars ==
    <<clock, hw, trace, op, pc, cur, enabled, pending_ins, args, ret, unreported>>

\* what enable and reset never touch
busvars == <<pending_ins, args, ret, unreported>>

vars ==
    <<endpoints, alloc_log, clock, hw, trace, op, pc, cur, enabled, pending_ins,
      args, ret, unreported>>

(***************************************************************************)
(* Constants of the driver                                                 *)
(***************************************************************************)
MAX_ENDPOINTS == 7

Slots == 0 .. (MAX_ENDPOINTS - 1)

\* const ENDPOINT_MAX_BUFSIZE: [u16; MAX_ENDPOINTS] = [64, 256, 64, 64, 64, 64, 64]
ENDPOINT_MAX_BUFSIZE == [i \in Slots |-> IF i = 1 THEN 256 ELSE 64]

(***************************************************************************)
(* Bounds and input sets of the model                                      *)
(***************************************************************************)
\* alloc_ep calls made in one behaviour of Spec
MaxCalls == 2

\* alloc_ep calls made in one behaviour of SpecAllocNone
MaxNoneCalls == 3

UsbDirection == {"In", "Out"}

EndpointType == {"Control", "Isochronous", "Bulk", "Interrupt"}

\* max_packet_size values tried: below every capacity, at the capacity of the
\* small slots, at the capacity of slot 1, above every capacity
PacketSizes == {8, 64, 256, 257}

\* indices of the addresses requested explicitly: the control slot, the large
\* slot, a small slot, and the first index out of range
AddrIndices == {0, 1, 2, MAX_ENDPOINTS}

(***************************************************************************)
(* Values                                                                  *)
(***************************************************************************)
\* Option::None, for a table slot and for the ep_addr argument
None == [some |-> FALSE]

EndpointTableEntry(ep_type, ep_dir, max_packet_size) ==
    [some |-> TRUE, ep_type |-> ep_type, ep_dir |-> ep_dir,
     max_packet_size |-> max_packet_size]

\* Some(EndpointAddress::from_parts(index, direction))
EndpointAddress(index, direction) ==
    [some |-> TRUE, index |-> index, direction |-> direction]

Ok(addr) == [ok |-> TRUE, index |-> addr.index, direction |-> addr.direction]

Err(e) == [ok |-> FALSE, err |-> e]

(***************************************************************************)
(* alloc_ep                                                                *)
(***************************************************************************)
\* find_map with the capacity test left out of the closure
RECURSIVE find_map_any_size(_, _, _)
find_map_any_size(eps, max_packet_size, i) ==
    IF i >= MAX_ENDPOINTS THEN MAX_ENDPOINTS
    ELSE IF eps[i] = None THEN i
    ELSE find_map_any_size(eps, max_packet_size, i + 1)

\* self.endpoints.iter().enumerate().skip(1).find_map(..): the first index
\* from i on whose slot is free and large enough, MAX_ENDPOINTS when the
\* iterator is exhausted (find_map returns None)
RECURSIVE find_map(_, _, _)
find_map(eps, max_packet_size, i) ==
    IF i >= MAX_ENDPOINTS THEN MAX_ENDPOINTS
    ELSE IF eps[i] = None /\ max_packet_size <= ENDPOINT_MAX_BUFSIZE[i] THEN i
    ELSE find_map(eps, max_packet_size, i + 1)

\* alloc_ep_at falling back to the search when the requested slot is taken
\* or too small
alloc_ep_at_fallback(eps, ep_dir, addr, ep_type, max_packet_size) ==
    IF addr.index >= MAX_ENDPOINTS
    THEN [endpoints |-> eps, ret |-> Err("InvalidEndpoint")]
    ELSE IF addr.index = 0 /\ addr.direction = "In"
    THEN [endpoints |-> eps, ret |-> Ok(addr)]
    ELSE LET index == IF eps[addr.index] # None
                         \/ max_packet_size > ENDPOINT_MAX_BUFSIZE[addr.index]
                      THEN find_map(eps, max_packet_size, 1)
                      ELSE addr.index
         IN  IF index = MAX_ENDPOINTS
             THEN [endpoints |-> eps, ret |-> Err("EndpointMemoryOverflow")]
             ELSE [endpoints |-> [eps EXCEPT ![index] =
                      EndpointTableEntry(ep_type, ep_dir, max_packet_size)],
                   ret |-> Ok(EndpointAddress(index, ep_dir))]

\* alloc_ep_at without the special case of (0, In)
alloc_ep_at_no_ep0_in(eps, ep_dir, addr, ep_type, max_packet_size) ==
    IF addr.index >= MAX_ENDPOINTS
    THEN [endpoints |-> eps, ret |-> Err("InvalidEndpoint")]
    ELSE IF eps[addr.index] # None
            \/ max_packet_size > ENDPOINT_MAX_BUFSIZE[addr.index]
    THEN [endpoints |-> eps, ret |-> Err("InvalidEndpoint")]
    ELSE [endpoints |-> [eps EXCEPT ![addr.index] =
                            EndpointTableEntry(ep_type, ep_dir, max_packet_size)],
          ret |-> Ok(addr)]

\* alloc_ep_at without the comparison against ENDPOINT_MAX_BUFSIZE
alloc_ep_at_no_capacity(eps, ep_dir, addr, ep_type, max_packet_size) ==
    IF addr.index >= MAX_ENDPOINTS
    THEN [endpoints |-> eps, ret |-> Err("InvalidEndpoint")]
    ELSE IF addr.index = 0 /\ addr.direction = "In"
    THEN [endpoints |-> eps, ret |-> Ok(addr)]
    ELSE IF eps[addr.index] # None
    THEN [endpoints |-> eps, ret |-> Err("InvalidEndpoint")]
    ELSE [endpoints |-> [eps EXCEPT ![addr.index] =
                            EndpointTableEntry(ep_type, ep_dir, max_packet_size)],
          ret |-> Ok(addr)]

\* alloc_ep_at storing the entry of a free slot before it compares the size
alloc_ep_at_store_first(eps, ep_dir, addr, ep_type, max_packet_size) ==
    IF addr.index >= MAX_ENDPOINTS
    THEN [endpoints |-> eps, ret |-> Err("InvalidEndpoint")]
    ELSE IF addr.index = 0 /\ addr.direction = "In"
    THEN [endpoints |-> eps, ret |-> Ok(addr)]
    ELSE IF eps[addr.index] # None
    THEN [endpoints |-> eps, ret |-> Err("InvalidEndpoint")]
    ELSE [endpoints |-> [eps EXCEPT ![addr.index] =
                            EndpointTableEntry(ep_type, ep_dir, max_packet_size)],
          ret |-> IF max_packet_size > ENDPOINT_MAX_BUFSIZE[addr.index]
                  THEN Err("InvalidEndpoint") ELSE Ok(addr)]

\* alloc_ep from "let index = addr.index()" on: the address is given.
\* The result is the new table and the returned value.
alloc_ep_at(eps, ep_dir, addr, ep_type, max_packet_size) ==
    IF addr.index >= MAX_ENDPOINTS
    THEN [endpoints |-> eps, ret |-> Err("InvalidEndpoint")]
    ELSE IF addr.index = 0 /\ addr.direction = "In"
    THEN [endpoints |-> eps, ret |-> Ok(addr)]
    ELSE IF eps[addr.index] # None
            \/ max_packet_size > ENDPOINT_MAX_BUFSIZE[addr.index]
    THEN [endpoints |-> eps, ret |-> Err("InvalidEndpoint")]
    ELSE [endpoints |-> [eps EXCEPT ![addr.index] =
                            EndpointTableEntry(ep_type, ep_dir, max_packet_size)],
          ret |-> Ok(addr)]

\* alloc_ep searching without skip(1)
alloc_ep_no_skip(eps, ep_dir, ep_addr, ep_type, max_packet_size) ==
    IF ep_addr = None
    THEN LET index == find_map(eps, max_packet_size, 0)
         IN  IF index = MAX_ENDPOINTS
             THEN [endpoints |-> eps, ret |-> Err("EndpointMemoryOverflow")]
             ELSE alloc_ep_at(eps, ep_dir, EndpointAddress(index, ep_dir),
                              ep_type, max_packet_size)
    ELSE alloc_ep_at(eps, ep_dir, ep_addr, ep_type, max_packet_size)

\* alloc_ep: with ep_addr = None an index is searched and the call recurses
\* with Some(address); the interval argument is never read.
alloc_ep(eps, ep_dir, ep_addr, ep_type, max_packet_size) ==
    IF ep_addr = None
    THEN LET index == find_map(eps, max_packet_size, 1)
         IN  IF index = MAX_ENDPOINTS
             THEN [endpoints |-> eps, ret |-> Err("EndpointMemoryOverflow")]
             ELSE alloc_ep_at(eps, ep_dir, EndpointAddress(index, ep_dir),
                              ep_type, max_packet_size)
    ELSE alloc_ep_at(eps, ep_dir, ep_addr, ep_type, max_packet_size)

\* One call of alloc_ep, logged with its arguments and its result.
AllocEpCall(ep_dir, ep_addr, ep_type, max_packet_size) ==
    LET r == alloc_ep(endpoints, ep_dir, ep_addr, ep_type, max_packet_size)
    IN  /\ endpoints' = r.endpoints
        /\ alloc_log' = Append(alloc_log,
              [ep_dir |-> ep_dir, ep_addr |-> ep_addr, ep_type |-> ep_type,
               max_packet_size |-> max_packet_size, ret |-> r.ret])
        /\ UNCHANGED hwvars

\* alloc_ep(ep_dir, None, ep_type, max_packet_size, _)
AllocEpNone ==
    /\ Len(alloc_log) < MaxCalls
    /\ \E ep_dir \in UsbDirection, ep_type \in EndpointType,
          max_packet_size \in PacketSizes :
          AllocEpCall(ep_dir, None, ep_type, max_packet_size)

\* alloc_ep(ep_dir, Some(address), ep_type, max_packet_size, _); the address
\* has the direction ep_dir (the caller's contract: a mismatch is unreachable!)
AllocEpAddr ==
    /\ Len(alloc_log) < MaxCalls
    /\ \E ep_dir \in UsbDirection, index \in AddrIndices,
          ep_type \in EndpointType, max_packet_size \in PacketSizes :
          AllocEpCall(ep_dir, EndpointAddress(index, ep_dir), ep_type,
                      max_packet_size)

\* alloc_ep(ep_dir, None, ..) again, for the behaviours of SpecAllocNone
AllocEpNoneSeq ==
    /\ Len(alloc_log) < MaxNoneCalls
    /\ \E ep_dir \in UsbDirection, ep_type \in EndpointType,
          max_packet_size \in PacketSizes :
          AllocEpCall(ep_dir, None, ep_type, max_packet_size)

\* the stack allocates one more interrupt IN endpoint of eight bytes, before
\* it enables the device
AllocEpIn ==
    /\ op = "new"
    /\ pc = "idle"
    /\ ~enabled
    /\ endpoints[1] = None
    /\ AllocEpCall("In", None, "Interrupt", 8)

(***************************************************************************)
(* Register encodings                                                      *)
(***************************************************************************)
eptype_bits_from_ep_type(ep_type) ==
    CASE ep_type = "Control"     -> 0
      [] ep_type = "Isochronous" -> 1
      [] ep_type = "Bulk"        -> 2
      [] ep_type = "Interrupt"   -> 3

epdir_bit_from_direction(direction) == IF direction = "In" THEN 1 ELSE 0

\* u16::next_power_of_two: the smallest power of two >= n (1 for n = 0),
\* searched upwards from p
RECURSIVE next_power_of_two_from(_, _)
next_power_of_two_from(n, p) ==
    IF p >= n THEN p ELSE next_power_of_two_from(n, 2 * p)

next_power_of_two(n) == next_power_of_two_from(n, 1)

\* the EPSIZE field worked out without max(8, ..)
epsize_bits_without_max(max_packet_size) ==
    LET value == next_power_of_two(max_packet_size)
    IN  CASE value = 8   -> 0
          [] value = 16  -> 1
          [] value = 32  -> 2
          [] value = 64  -> 3
          [] value = 128 -> 4
          [] value = 256 -> 5
          [] value = 512 -> 6
          [] OTHER       -> -1

\* the EPSIZE field of UECFG1X; -1 stands for the unreachable!() arm
epsize_bits_from_max_packet_size(max_packet_size) ==
    LET npot  == next_power_of_two(max_packet_size)
        value == IF npot > 8 THEN npot ELSE 8
    IN  CASE value = 8   -> 0
          [] value = 16  -> 1
          [] value = 32  -> 2
          [] value = 64  -> 3
          [] value = 128 -> 4
          [] value = 256 -> 5
          [] value = 512 -> 6
          [] OTHER       -> -1

(***************************************************************************)
(* The register file.  Unbanked registers are fields of hw; the registers  *)
(* of an endpoint are hw.ep[i], and the driver reaches the bank that UENUM *)
(* selects.  A bit is 0 or 1.  fifo is the content of the endpoint's bank, *)
(* which UEDATX pushes to and pulls from and UEBCHX/UEBCLX count; RWAL is  *)
(* not stored in UEINTX but worked out of the bank when UEINTX is read.    *)
(***************************************************************************)
EndpointRegisters ==
    [UECONX  |-> [epen |-> 0, stallrq |-> 0],
     UECFG0X |-> [epdir |-> 0, eptype |-> 0],
     UECFG1X |-> [epbk |-> 0, epsize |-> 0, alloc |-> 0],
     UESTA0X |-> [cfgok |-> 0],
     UEIENX  |-> [rxoute |-> 0, rxstpe |-> 0],
     UEINTX  |-> [txini |-> 0, stalledi |-> 0, rxouti |-> 0, rxstpi |-> 0,
                  nakouti |-> 0, rwal |-> 0, nakini |-> 0, fifocon |-> 0],
     fifo    |-> << >>]

\* the registers before enable: the USB block is off and detached; the boot
\* code may have left the PLL off or running and locked, the clock frozen or not
Registers(pll_on, frzclk) ==
    [PLLCSR |-> [pindiv |-> 0, plle |-> pll_on, plock |-> pll_on],
     PLLFRQ |-> [bits |-> 4],
     UHWCON |-> [uvrege |-> 0],
     USBCON |-> [usbe |-> 0, frzclk |-> frzclk, otgpade |-> 0, vbuste |-> 0],
     UDCON  |-> [detach |-> 1],
     UDADDR |-> [uadd |-> 0, adden |-> 0],
     UDIEN  |-> [eorste |-> 0, sofe |-> 0, suspe |-> 0, wakeupe |-> 0],
     UDINT  |-> [eorsti |-> 0, sofi |-> 0, suspi |-> 0, wakeupi |-> 0],
     USBINT |-> [vbusti |-> 0],
     USBSTA |-> [vbus |-> 0],
     UENUM  |-> [bits |-> 0],
     ep     |-> [i \in Slots |-> EndpointRegisters]]

\* the reset values write() starts from
UECFG0X_reset == [epdir |-> 0, eptype |-> 0]

UECFG1X_reset == [epbk |-> 0, epsize |-> 0, alloc |-> 0]

\* bit i of the u8 n
Bit(n, i) == (n \div (2 ^ i)) % 2

\* the u8 whose bit i is b[i]
ByteOf(b) ==
    b[0] + (2 * b[1]) + (4 * b[2]) + (8 * b[3]) + (16 * b[4]) + (32 * b[5])
    + (64 * b[6]) + (128 * b[7])

\* the position of each flag the driver names, in its register
UDINT_bit == [suspi |-> 0, sofi |-> 2, eorsti |-> 3, wakeupi |-> 4]

UEINTX_bit ==
    [txini |-> 0, stalledi |-> 1, rxouti |-> 2, rxstpi |-> 3, nakouti |-> 4,
     rwal |-> 5, nakini |-> 6, fifocon |-> 7]

USBINT_bit == [vbusti |-> 0]

\* the fields of the byte n, laid out as bit says
FromBits(n, bit) == [f \in DOMAIN bit |-> Bit(n, bit[f])]

\* the byte that holds the fields of val, every other bit 0
ToBits(val, bit) ==
    ByteOf([i \in 0 .. 7 |->
               IF \E f \in DOMAIN bit : bit[f] = i /\ val[f] = 1 THEN 1 ELSE 0])

\* w.bits(n) followed by clear_bit() on each flag of cleared: the byte written
ClearedBits(n, bit, cleared) ==
    ByteOf([i \in 0 .. 7 |->
               IF \E f \in cleared : bit[f] = i THEN 0 ELSE Bit(n, i)])

\* a clear_interrupts for UDINT that starts from all ones
UDINT_clear_interrupts_all_ones(cleared) == ClearedBits(255, UDINT_bit, cleared)

\* UDINT's clear_interrupts: self.write(|w| f(unsafe { w.bits(0x7d) }))
UDINT_clear_interrupts(cleared) == ClearedBits(125, UDINT_bit, cleared)

\* UEINTX's clear_interrupts: self.write(|w| f(unsafe { w.bits(0xdf) }))
UEINTX_clear_interrupts(cleared) == ClearedBits(223, UEINTX_bit, cleared)

\* USBINT's clear_interrupts: self.write(|w| f(unsafe { w.bits(0x01) }))
USBINT_clear_interrupts(cleared) == ClearedBits(1, USBINT_bit, cleared)

\* what UDINT's clear_interrupts hands to its callback: every known flag is 1
UDINT_preserve == FromBits(UDINT_clear_interrupts({}), UDINT_bit)

\* what UEINTX's hands to its callback: every bit but RWAL is 1
UEINTX_preserve == FromBits(UEINTX_clear_interrupts({}), UEINTX_bit)

\* what USBINT's hands to its callback: VBUSTI is 1
USBINT_preserve == FromBits(USBINT_clear_interrupts({}), USBINT_bit)

\* r with the fields of changes replaced
Merge(r, changes) ==
    [f \in DOMAIN r |-> IF f \in DOMAIN changes THEN changes[f] ELSE r[f]]

\* an interrupt flag register keeps a flag only where a 1 is written
FlagsAfterWrite(old, written) ==
    [f \in DOMAIN old |-> IF written[f] = 0 THEN 0 ELSE old[f]]

\* one entry of trace: kind is "read", "write" or "modify"; fields are the
\* fields the driver names; val is the value read or written; ep is the
\* selected endpoint for a banked register and -1 otherwise
Access(kind, reg, fields, val) ==
    [kind |-> kind, reg |-> reg, ep |-> -1, fields |-> fields, val |-> val]

EpAccess(kind, reg, fields, val) ==
    [kind |-> kind, reg |-> reg, ep |-> hw.UENUM.bits, fields |-> fields,
     val |-> val]

\* reg.modify(|_, w| ...) on an unbanked register
Modify(reg, changes) ==
    LET v == Merge(hw[reg], changes)
    IN  /\ hw' = [hw EXCEPT ![reg] = v]
        /\ trace' = Append(trace, Access("modify", reg, DOMAIN changes, v))

\* reg.modify(|_, w| ...) on a register of the selected endpoint
ModifyEp(reg, changes) ==
    LET e == hw.UENUM.bits
        v == Merge(hw.ep[e][reg], changes)
    IN  /\ hw' = [hw EXCEPT !.ep[e][reg] = v]
        /\ trace' = Append(trace, EpAccess("modify", reg, DOMAIN changes, v))

\* reg.write(|w| ...) on a register of the selected endpoint: the reset value
\* with the named fields set
WriteEp(reg, reset, changes) ==
    LET e == hw.UENUM.bits
        v == Merge(reset, changes)
    IN  /\ hw' = [hw EXCEPT !.ep[e][reg] = v]
        /\ trace' = Append(trace, EpAccess("write", reg, DOMAIN changes, v))

(***************************************************************************)
(* active_endpoints and set_current_endpoint                               *)
(***************************************************************************)
\* the indices active_endpoints() yields
active_endpoints == {i \in Slots : endpoints[i] # None}

\* the iterator: the first active index from i on, MAX_ENDPOINTS at the end
RECURSIVE active_from(_)
active_from(i) ==
    IF i >= MAX_ENDPOINTS THEN MAX_ENDPOINTS
    ELSE IF endpoints[i] # None THEN i
    ELSE active_from(i + 1)

\* where an operation goes when its loop over active_endpoints() is over
AfterLoop == IF op = "enable" THEN "enable_detach" ELSE "reset_clear_udint"

\* the for loop's head, standing at index i
LoopAt(i) ==
    LET n == active_from(i)
    IN  /\ cur' = n
        /\ pc' = IF n < MAX_ENDPOINTS THEN "set_current_endpoint" ELSE AfterLoop

\* set_current_endpoint(cs, index): the result, and the registers accessed
set_current_endpoint(index) ==
    IF index >= MAX_ENDPOINTS
    THEN [ret |-> Err("InvalidEndpoint"), UENUM |-> hw.UENUM, accesses |-> << >>]
    ELSE IF hw.USBCON.frzclk = 1
    THEN [ret |-> Err("InvalidState"), UENUM |-> hw.UENUM,
          accesses |-> <<Access("read", "USBCON", {"frzclk"}, hw.USBCON)>>]
    ELSE LET written   == [bits |-> index]
             read_back == written.bits
         IN  [ret |-> IF read_back # index THEN Err("InvalidState")
                      ELSE [ok |-> TRUE],
              UENUM |-> written,
              accesses |->
                <<Access("read", "USBCON", {"frzclk"}, hw.USBCON),
                  Access("write", "UENUM", {"bits"}, written),
                  Access("read", "UENUM", {"bits"}, written)>>]

(***************************************************************************)
(* configure_endpoint(cs, index), run by enable and reset for every index  *)
(* of active_endpoints(); both unwrap() its result, so an Err is a panic   *)
(***************************************************************************)
\* self.set_current_endpoint(cs, index)?  and the lookup of endpoints[index]
ConfigureSelect ==
    /\ pc = "set_current_endpoint"
    /\ LET r == set_current_endpoint(cur)
       IN  /\ hw' = [hw EXCEPT !.UENUM = r.UENUM]
           /\ trace' = trace \o r.accesses
           /\ pc' = IF r.ret.ok /\ endpoints[cur] # None
                    THEN "cfg_epen" ELSE "panic"
    /\ UNCHANGED <<endpoints, alloc_log, clock, op, cur, enabled>>
    /\ UNCHANGED busvars

\* ConfigureEpen going on without the clear of ALLOC
ConfigureEpen_no_clear ==
    /\ pc = "cfg_epen"
    /\ ModifyEp("UECONX", [epen |-> 1])
    /\ pc' = "cfg_uecfg0x"
    /\ UNCHANGED <<endpoints, alloc_log, clock, op, cur, enabled>>
    /\ UNCHANGED busvars

\* usb.ueconx().modify(|_, w| w.epen().set_bit())
ConfigureEpen ==
    /\ pc = "cfg_epen"
    /\ ModifyEp("UECONX", [epen |-> 1])
    /\ pc' = "cfg_alloc_clear"
    /\ UNCHANGED <<endpoints, alloc_log, clock, op, cur, enabled>>
    /\ UNCHANGED busvars

\* ConfigureAllocClear moving to the next endpoint once ALLOC is cleared: the
\* loop clears every endpoint and sets none
ConfigureAllocClear_only ==
    /\ pc = "cfg_alloc_clear"
    /\ ModifyEp("UECFG1X", [alloc |-> 0])
    /\ LET n == active_from(cur + 1)
       IN  /\ cur' = n
           /\ pc' = IF n < MAX_ENDPOINTS THEN "set_current_endpoint"
                    ELSE AfterLoop
    /\ UNCHANGED <<endpoints, alloc_log, clock, op, enabled>>
    /\ UNCHANGED busvars

\* usb.uecfg1x().modify(|_, w| w.alloc().clear_bit())
ConfigureAllocClear ==
    /\ pc = "cfg_alloc_clear"
    /\ ModifyEp("UECFG1X", [alloc |-> 0])
    /\ pc' = "cfg_uecfg0x"
    /\ UNCHANGED <<endpoints, alloc_log, clock, op, cur, enabled>>
    /\ UNCHANGED busvars

\* usb.uecfg0x().write(|w| w.epdir().bit(..).eptype().bits(..))
ConfigureUecfg0x ==
    /\ pc = "cfg_uecfg0x"
    /\ WriteEp("UECFG0X", UECFG0X_reset,
               [epdir  |-> epdir_bit_from_direction(endpoints[cur].ep_dir),
                eptype |-> eptype_bits_from_ep_type(endpoints[cur].ep_type)])
    /\ pc' = "cfg_uecfg1x"
    /\ UNCHANGED <<endpoints, alloc_log, clock, op, cur, enabled>>
    /\ UNCHANGED busvars

\* usb.uecfg1x().write(|w| w.epbk().bits(0).epsize().bits(..))
ConfigureUecfg1x ==
    /\ pc = "cfg_uecfg1x"
    /\ LET epsize ==
             epsize_bits_from_max_packet_size(endpoints[cur].max_packet_size)
       IN  IF epsize < 0
           THEN /\ pc' = "panic"
                /\ UNCHANGED <<hw, trace>>
           ELSE /\ WriteEp("UECFG1X", UECFG1X_reset,
                           [epbk |-> 0, epsize |-> epsize])
                /\ pc' = "cfg_alloc_set"
    /\ UNCHANGED <<endpoints, alloc_log, clock, op, cur, enabled>>
    /\ UNCHANGED busvars

\* usb.uecfg1x().modify(|_, w| w.alloc().set_bit()); the controller answers
\* in CFGOK, and may refuse the configuration
ConfigureAllocSet ==
    /\ pc = "cfg_alloc_set"
    /\ \E cfgok \in {0, 1} :
          LET e == hw.UENUM.bits
              v == Merge(hw.ep[e].UECFG1X, [alloc |-> 1])
          IN  /\ hw' = [hw EXCEPT !.ep[e].UECFG1X = v,
                                  !.ep[e].UESTA0X = [cfgok |-> cfgok]]
              /\ trace' = Append(trace,
                                 EpAccess("modify", "UECFG1X", {"alloc"}, v))
    /\ pc' = "cfg_cfgok"
    /\ UNCHANGED <<endpoints, alloc_log, clock, op, cur, enabled>>
    /\ UNCHANGED busvars

\* assert!(usb.uesta0x().read().cfgok().bit_is_set(), ..)
ConfigureCfgok ==
    /\ pc = "cfg_cfgok"
    /\ trace' = Append(trace, EpAccess("read", "UESTA0X", {"cfgok"},
                                       hw.ep[hw.UENUM.bits].UESTA0X))
    /\ pc' = IF hw.ep[hw.UENUM.bits].UESTA0X.cfgok = 1
             THEN "cfg_ueienx" ELSE "panic"
    /\ UNCHANGED <<endpoints, alloc_log, clock, hw, op, cur, enabled>>
    /\ UNCHANGED busvars

\* usb.ueienx().modify(|_, w| w.rxoute().set_bit().rxstpe().set_bit());
\* Ok(()), and the caller's for loop moves on
ConfigureUeienx ==
    /\ pc = "cfg_ueienx"
    /\ ModifyEp("UEIENX", [rxoute |-> 1, rxstpe |-> 1])
    /\ LoopAt(cur + 1)
    /\ UNCHANGED <<endpoints, alloc_log, clock, op, enabled>>
    /\ UNCHANGED busvars

(***************************************************************************)
(* enable                                                                  *)
(***************************************************************************)
\* fn enable(&mut self): interrupt::free(|cs| ..) is entered
EnableCall ==
    /\ pc = "idle"
    /\ ~enabled
    /\ op' = "enable"
    /\ trace' = << >>
    /\ pc' = "enable_pindiv"
    /\ UNCHANGED <<endpoints, alloc_log, clock, hw, cur, enabled>>
    /\ UNCHANGED busvars

\* pll.pllcsr().modify(|_, w| CLOCKUSB::setup_pllcsr_pindiv(w))
EnablePindiv ==
    /\ pc = "enable_pindiv"
    /\ Modify("PLLCSR", [pindiv |-> IF clock = "MHz16" THEN 1 ELSE 0])
    /\ pc' = "enable_pllfrq"
    /\ UNCHANGED <<endpoints, alloc_log, clock, op, cur, enabled>>
    /\ UNCHANGED busvars

\* pll.pllfrq().write(|w| unsafe { w.bits(0b0000_0100) })
EnablePllfrq ==
    /\ pc = "enable_pllfrq"
    /\ hw' = [hw EXCEPT !.PLLFRQ = [bits |-> 4]]
    /\ trace' = Append(trace, Access("write", "PLLFRQ", {"bits"}, [bits |-> 4]))
    /\ pc' = "enable_plle"
    /\ UNCHANGED <<endpoints, alloc_log, clock, op, cur, enabled>>
    /\ UNCHANGED busvars

\* EnablePlle going on without the wait for PLOCK
EnablePlle_no_wait ==
    /\ pc = "enable_plle"
    /\ Modify("PLLCSR", [plle |-> 1])
    /\ pc' = "enable_uvrege"
    /\ UNCHANGED <<endpoints, alloc_log, clock, op, cur, enabled>>
    /\ UNCHANGED busvars

\* pll.pllcsr().modify(|_, w| w.plle().set_bit())
EnablePlle ==
    /\ pc = "enable_plle"
    /\ Modify("PLLCSR", [plle |-> 1])
    /\ pc' = "enable_plock"
    /\ UNCHANGED <<endpoints, alloc_log, clock, op, cur, enabled>>
    /\ UNCHANGED busvars

\* while pll.pllcsr().read().plock().bit_is_clear() {}: a read that finds
\* PLOCK clear loops (the state does not change); the read that finds it set
\* leaves the loop and is the one logged
EnablePlock ==
    /\ pc = "enable_plock"
    /\ hw.PLLCSR.plock = 1
    /\ trace' = Append(trace, Access("read", "PLLCSR", {"plock"}, hw.PLLCSR))
    /\ pc' = "enable_uvrege"
    /\ UNCHANGED <<endpoints, alloc_log, clock, hw, op, cur, enabled>>
    /\ UNCHANGED busvars

\* usb.uhwcon().modify(|_, w| w.uvrege().set_bit())
EnableUvrege ==
    /\ pc = "enable_uvrege"
    /\ Modify("UHWCON", [uvrege |-> 1])
    /\ pc' = "enable_usbe"
    /\ UNCHANGED <<endpoints, alloc_log, clock, op, cur, enabled>>
    /\ UNCHANGED busvars

\* EnableUsbe freezing the clock instead of enabling the pad
EnableUsbe_frzclk ==
    /\ pc = "enable_usbe"
    /\ Modify("USBCON", [usbe |-> 1, frzclk |-> 1])
    /\ pc' = "enable_frzclk"
    /\ UNCHANGED <<endpoints, alloc_log, clock, op, cur, enabled>>
    /\ UNCHANGED busvars

\* usb.usbcon().modify(|_, w| w.usbe().set_bit().otgpade().set_bit()),
\* then delay.delay_ms(1), which touches no register
EnableUsbe ==
    /\ pc = "enable_usbe"
    /\ Modify("USBCON", [usbe |-> 1, otgpade |-> 1])
    /\ pc' = "enable_frzclk"
    /\ UNCHANGED <<endpoints, alloc_log, clock, op, cur, enabled>>
    /\ UNCHANGED busvars

\* usb.usbcon().modify(|_, w| w.frzclk().clear_bit().vbuste().set_bit()),
\* then for (index, _ep) in self.active_endpoints() starts
EnableFrzclk ==
    /\ pc = "enable_frzclk"
    /\ Modify("USBCON", [frzclk |-> 0, vbuste |-> 1])
    /\ LoopAt(0)
    /\ UNCHANGED <<endpoints, alloc_log, clock, op, enabled>>
    /\ UNCHANGED busvars

\* usb.udcon().modify(|_, w| w.detach().clear_bit())
EnableDetach ==
    /\ pc = "enable_detach"
    /\ Modify("UDCON", [detach |-> 0])
    /\ pc' = "enable_udien"
    /\ UNCHANGED <<endpoints, alloc_log, clock, op, cur, enabled>>
    /\ UNCHANGED busvars

\* usb.udien().modify(|_, w| w.eorste().set_bit().sofe().set_bit()); enable
\* returns
EnableUdien ==
    /\ pc = "enable_udien"
    /\ Modify("UDIEN", [eorste |-> 1, sofe |-> 1])
    /\ pc' = "idle"
    /\ enabled' = TRUE
    /\ UNCHANGED <<endpoints, alloc_log, clock, op, cur>>
    /\ UNCHANGED busvars

(***************************************************************************)
(* reset                                                                   *)
(***************************************************************************)
\* a reset that forgets the writes in flight
ResetCall_forgets_pending ==
    /\ pc = "idle"
    /\ enabled
    /\ op' = "reset"
    /\ trace' = << >>
    /\ pc' = "reset_read_udint"
    /\ pending_ins' = 0
    /\ UNCHANGED <<endpoints, alloc_log, clock, hw, cur, enabled>>
    /\ UNCHANGED <<args, ret, unreported>>

\* fn reset(&self): called by the stack once the device is enabled
ResetCall ==
    /\ pc = "idle"
    /\ enabled
    /\ op' = "reset"
    /\ trace' = << >>
    /\ pc' = "reset_read_udint"
    /\ UNCHANGED <<endpoints, alloc_log, clock, hw, cur, enabled>>
    /\ UNCHANGED busvars

\* usb.udint().modify(|_, w| w.eorsti().clear_bit()), first half: modify
\* reads the register; the controller may raise flags before the write
ResetReadUdint ==
    /\ pc = "reset_read_udint"
    /\ trace' = Append(trace, Access("read", "UDINT", {}, hw.UDINT))
    /\ pc' = "reset_eorsti"
    /\ UNCHANGED <<endpoints, alloc_log, clock, hw, op, cur, enabled>>
    /\ UNCHANGED busvars

\* second half: the value read is written back with EORSTI cleared; then
\* the for loop starts
ResetEorsti ==
    /\ pc = "reset_eorsti"
    /\ LET v == Merge(trace[Len(trace)].val, [eorsti |-> 0])
       IN  /\ hw' = [hw EXCEPT !.UDINT = FlagsAfterWrite(hw.UDINT, v)]
           /\ trace' = Append(trace, Access("modify", "UDINT", {"eorsti"}, v))
    /\ LoopAt(0)
    /\ UNCHANGED <<endpoints, alloc_log, clock, op, enabled>>
    /\ UNCHANGED busvars

\* usb.udint().clear_interrupts(|w| w.wakeupi().clear_bit().suspi().clear_bit())
ResetClearUdint ==
    /\ pc = "reset_clear_udint"
    /\ LET v == Merge(UDINT_preserve, [wakeupi |-> 0, suspi |-> 0])
       IN  /\ hw' = [hw EXCEPT !.UDINT = FlagsAfterWrite(hw.UDINT, v)]
           /\ trace' = Append(trace,
                              Access("write", "UDINT", {"wakeupi", "suspi"}, v))
    /\ pc' = "reset_udien"
    /\ UNCHANGED <<endpoints, alloc_log, clock, op, cur, enabled>>
    /\ UNCHANGED busvars

\* usb.udien().modify(|_, w| w.wakeupe().clear_bit().suspe().set_bit()); reset
\* returns
ResetUdien ==
    /\ pc = "reset_udien"
    /\ Modify("UDIEN", [wakeupe |-> 0, suspe |-> 1])
    /\ pc' = "idle"
    /\ UNCHANGED <<endpoints, alloc_log, clock, op, cur, enabled>>
    /\ UNCHANGED busvars

(***************************************************************************)
(* write, read and poll run inside one interrupt::free section each.  Each *)
(* is worked out as a whole: a Machine holds the registers as the section  *)
(* has left them so far and the accesses it has made.                      *)
(***************************************************************************)
Machine(h, acc) == [hw |-> h, acc |-> acc]

\* one access of a Machine, made with endpoint ep selected (-1: unbanked)
AccessAt(kind, reg, ep, fields, val) ==
    [kind |-> kind, reg |-> reg, ep |-> ep, fields |-> fields, val |-> val]

\* the bank EPSIZE reserves: 8 << epsize bytes
BankSize(h, e) == 8 * (2 ^ h.ep[e].UECFG1X.epsize)

\* RWAL as the controller reports it: the firmware holds the bank (FIFOCON)
\* and, on an IN endpoint, the bank is not full; on an OUT endpoint, not empty
Rwal(h, e) ==
    IF h.ep[e].UEINTX.fifocon = 1
       /\ IF h.ep[e].UECFG0X.epdir = 1
          THEN Len(h.ep[e].fifo) < BankSize(h, e)
          ELSE Len(h.ep[e].fifo) > 0
    THEN 1 ELSE 0

\* the value usb.ueintx().read() returns
UEINTX_read(h, e) == [h.ep[e].UEINTX EXCEPT !.rwal = Rwal(h, e)]

\* usb.ueintx().read(), of which the driver looks at fields
ReadUeintx(m, fields) ==
    LET e == m.hw.UENUM.bits
    IN  [m EXCEPT !.acc = Append(@, AccessAt("read", "UEINTX", e, fields,
                                             UEINTX_read(m.hw, e)))]

\* usb.ueintx().clear_interrupts(|w| ..) clearing the flags of cleared: 0xdf
\* with these bits zeroed is written.  Clearing RXOUTI or RXSTPI of a
\* control endpoint, or FIFOCON of an OUT endpoint, releases the bank.
ClearUeintx(m, cleared) ==
    LET e        == m.hw.UENUM.bits
        v        == Merge(UEINTX_preserve, [f \in cleared |-> 0])
        old      == m.hw.ep[e]
        drops(f) == old.UEINTX[f] = 1 /\ v[f] = 0
        released == IF old.UECFG0X.eptype = 0
                    THEN drops("rxouti") \/ drops("rxstpi")
                    ELSE old.UECFG0X.epdir = 0 /\ drops("fifocon")
    IN  [hw  |-> [m.hw EXCEPT
                    !.ep[e].UEINTX = FlagsAfterWrite(old.UEINTX, v),
                    !.ep[e].fifo = IF released THEN << >> ELSE old.fifo],
         acc |-> Append(m.acc, AccessAt("write", "UEINTX", e, cleared, v))]

\* usb.uedatx().write(|w| w.bits(byte)): the byte enters the bank; a full
\* bank takes no more
PushUedatx(m, byte) ==
    LET e == m.hw.UENUM.bits
    IN  [hw  |-> [m.hw EXCEPT !.ep[e].fifo =
                    IF Len(@) < BankSize(m.hw, e) THEN Append(@, byte) ELSE @],
         acc |-> Append(m.acc, AccessAt("write", "UEDATX", e, {"bits"},
                                        [bits |-> byte]))]

\* the byte usb.uedatx().read().bits() returns; -1 stands for the unspecified
\* value an empty bank returns
Uedatx(m) ==
    LET e == m.hw.UENUM.bits
    IN  IF m.hw.ep[e].fifo = << >> THEN -1 ELSE Head(m.hw.ep[e].fifo)

\* usb.uedatx().read(): the byte leaves the bank
PullUedatx(m) ==
    LET e == m.hw.UENUM.bits
    IN  [hw  |-> [m.hw EXCEPT !.ep[e].fifo =
                    IF @ = << >> THEN @ ELSE Tail(@)],
         acc |-> Append(m.acc, AccessAt("read", "UEDATX", e, {"bits"},
                                        [bits |-> Uedatx(m)]))]

\* n | 1 << i, as a u8
u8_or_bit(n, i) == (IF Bit(n, i) = 1 THEN n ELSE n + (2 ^ i)) % 256

\* n & !(1 << i)
u8_and_not_bit(n, i) == IF Bit(n, i) = 1 THEN n - (2 ^ i) ELSE n

\* self.endpoints.get(index), Some(Some(entry)) or InvalidEndpoint
get_endpoint_table_entry(index) ==
    IF index \in Slots /\ endpoints[index] # None
    THEN [ok |-> TRUE, entry |-> endpoints[index]]
    ELSE Err("InvalidEndpoint")

\* Ok(n) of write and read
OkLen(n) == [ok |-> TRUE, len |-> n]

\* endpoint_byte_count: UEBCHX holds the high three bits of the count of
\* bytes in the bank, UEBCLX the low eight; (uebchx << 8) | uebclx
endpoint_byte_count(m) ==
    LET e      == m.hw.UENUM.bits
        byct   == Len(m.hw.ep[e].fifo)
        uebchx == (byct \div 256) % 8
        uebclx == byct % 256
    IN  [count |-> (uebchx * 256) + uebclx,
         m     |-> [m EXCEPT !.acc = @ \o
                     <<AccessAt("read", "UEBCHX", e, {"bits"}, [bits |-> uebchx]),
                       AccessAt("read", "UEBCLX", e, {"bits"}, [bits |-> uebclx])>>]]

(***************************************************************************)
(* write                                                                   *)
(***************************************************************************)
\* what write leaves: the registers, the accesses, pending_ins and its result
WriteResult(m, pending, r) ==
    [hw |-> m.hw, acc |-> m.acc, pending_ins |-> pending, ret |-> r]

\* an assert_eq! that fails
Panic == [ok |-> FALSE, err |-> "panic"]

\* for &byte in buf { usb.uedatx().write(..) }
RECURSIVE push_all(_, _)
push_all(m, buf) ==
    IF buf = << >> THEN m
    ELSE push_all(PushUedatx(m, Head(buf)), Tail(buf))

\* the loop pushing every byte, full bank or not
RECURSIVE push_while_rwal_unchecked(_, _)
push_while_rwal_unchecked(m, buf) ==
    IF buf = << >> THEN [m |-> m, ok |-> TRUE]
    ELSE push_while_rwal_unchecked(
            PushUedatx(ReadUeintx(m, {"rwal"}), Head(buf)), Tail(buf))

\* for &byte in buf { if rwal is clear { return Err(BufferOverflow) }; push }
RECURSIVE push_while_rwal(_, _)
push_while_rwal(m, buf) ==
    IF buf = << >> THEN [m |-> m, ok |-> TRUE]
    ELSE LET m1 == ReadUeintx(m, {"rwal"})
         IN  IF Rwal(m.hw, m.hw.UENUM.bits) = 0
             THEN [m |-> m1, ok |-> FALSE]
             ELSE push_while_rwal(PushUedatx(m1, Head(buf)), Tail(buf))

\* a write whose control branch does not compare buf.len() with
\* max_packet_size
write_selected_no_size_check(m0, index, endpoint, buf) ==
    LET m1      == ReadUeintx(m0, {"txini"})
        txini   == UEINTX_read(m0.hw, m0.hw.UENUM.bits).txini
        pending == u8_or_bit(pending_ins, index)
    IN  IF endpoint.ep_type = "Control"
        THEN IF txini = 0
             THEN WriteResult(m1, pending_ins, Err("WouldBlock"))
             ELSE WriteResult(ClearUeintx(push_all(m1, buf), {"txini"}),
                              pending, OkLen(Len(buf)))
        ELSE IF txini = 0
             THEN WriteResult(m1, pending_ins, Err("WouldBlock"))
             ELSE LET r == push_while_rwal(
                              ClearUeintx(m1, {"txini", "rxouti"}), buf)
                  IN  IF ~r.ok
                      THEN WriteResult(r.m, pending_ins, Err("BufferOverflow"))
                      ELSE WriteResult(
                              ClearUeintx(r.m, {"fifocon", "rxouti"}),
                              pending, OkLen(Len(buf)))

\* write, from "if endpoint.ep_type == EndpointType::Control" on
write_selected(m0, index, endpoint, buf) ==
    LET m1      == ReadUeintx(m0, {"txini"})
        txini   == UEINTX_read(m0.hw, m0.hw.UENUM.bits).txini
        pending == u8_or_bit(pending_ins, index)
    IN  IF endpoint.ep_type = "Control"
        THEN IF txini = 0
             THEN WriteResult(m1, pending_ins, Err("WouldBlock"))
             ELSE IF Len(buf) > endpoint.max_packet_size
             THEN WriteResult(m1, pending_ins, Err("BufferOverflow"))
             ELSE WriteResult(ClearUeintx(push_all(m1, buf), {"txini"}),
                              pending, OkLen(Len(buf)))
        ELSE IF txini = 0
             THEN WriteResult(m1, pending_ins, Err("WouldBlock"))
             ELSE LET r == push_while_rwal(
                              ClearUeintx(m1, {"txini", "rxouti"}), buf)
                  IN  IF ~r.ok
                      THEN WriteResult(r.m, pending_ins, Err("BufferOverflow"))
                      ELSE WriteResult(
                              ClearUeintx(r.m, {"fifocon", "rxouti"}),
                              pending, OkLen(Len(buf)))

\* a write that marks the endpoint in pending_ins whatever it returns once
\* the endpoint is selected
write_marks_on_error(ep_addr, buf) ==
    LET index == ep_addr.index
        found == get_endpoint_table_entry(index)
        sel   == set_current_endpoint(index)
        m0    == Machine([hw EXCEPT !.UENUM = sel.UENUM], sel.accesses)
    IN  IF ~found.ok
        THEN WriteResult(Machine(hw, << >>), pending_ins, found)
        ELSE IF ep_addr.direction # "In"
                \/ (index # 0 /\ found.entry.ep_dir # "In")
        THEN WriteResult(Machine(hw, << >>), pending_ins, Panic)
        ELSE IF ~sel.ret.ok
        THEN WriteResult(m0, pending_ins, sel.ret)
        ELSE [write_selected(m0, index, found.entry, buf)
                 EXCEPT !.pending_ins = u8_or_bit(pending_ins, index)]

\* fn write(&self, ep_addr, buf)
write(ep_addr, buf) ==
    LET index == ep_addr.index
        found == get_endpoint_table_entry(index)
        sel   == set_current_endpoint(index)
        m0    == Machine([hw EXCEPT !.UENUM = sel.UENUM], sel.accesses)
    IN  IF ~found.ok
        THEN WriteResult(Machine(hw, << >>), pending_ins, found)
        ELSE IF ep_addr.direction # "In"
                \/ (index # 0 /\ found.entry.ep_dir # "In")
        THEN WriteResult(Machine(hw, << >>), pending_ins, Panic)
        ELSE IF ~sel.ret.ok
        THEN WriteResult(m0, pending_ins, sel.ret)
        ELSE write_selected(m0, index, found.entry, buf)

(***************************************************************************)
(* read                                                                    *)
(***************************************************************************)
\* what read leaves: the registers, the accesses, the caller's buffer and
\* its result
ReadResult(m, buf, r) == [hw |-> m.hw, acc |-> m.acc, buf |-> buf, ret |-> r]

\* for slot in &mut buf[..n] { *slot = usb.uedatx().read().bits() }: the
\* Machine after it and the bytes stored
RECURSIVE pull_n(_, _, _)
pull_n(m, n, bytes) ==
    IF n = 0 THEN [m |-> m, bytes |-> bytes]
    ELSE pull_n(PullUedatx(m), n - 1, Append(bytes, Uedatx(m)))

\* the loop filling every slot of buf, empty bank or not
RECURSIVE pull_while_rwal_unchecked(_, _, _)
pull_while_rwal_unchecked(m, n, bytes) ==
    IF n = 0 THEN [m |-> m, bytes |-> bytes]
    ELSE LET m1 == ReadUeintx(m, {"rwal"})
         IN  pull_while_rwal_unchecked(PullUedatx(m1), n - 1,
                                       Append(bytes, Uedatx(m1)))

\* for slot in buf { if rwal is clear { break }; *slot = ..; bytes_read += 1 }
RECURSIVE pull_while_rwal(_, _, _)
pull_while_rwal(m, n, bytes) ==
    IF n = 0 THEN [m |-> m, bytes |-> bytes]
    ELSE LET m1 == ReadUeintx(m, {"rwal"})
         IN  IF Rwal(m.hw, m.hw.UENUM.bits) = 0
             THEN [m |-> m1, bytes |-> bytes]
             ELSE pull_while_rwal(PullUedatx(m1), n - 1,
                                  Append(bytes, Uedatx(m1)))

\* buf with its first slots overwritten by bytes
Stored(buf, bytes) == bytes \o SubSeq(buf, Len(bytes) + 1, Len(buf))

\* a read whose control branch clears RXOUTI alone
read_selected_keeps_rxstpi(m0, endpoint, buf) ==
    LET e  == m0.hw.UENUM.bits
        v  == UEINTX_read(m0.hw, e)
    IN  IF endpoint.ep_type = "Control"
        THEN LET m1 == ReadUeintx(m0, {"rxouti", "rxstpi"})
                 c  == endpoint_byte_count(m1)
                 r  == pull_n(c.m, c.count, << >>)
             IN  IF v.rxouti = 0 /\ v.rxstpi = 0
                 THEN ReadResult(m1, buf, Err("WouldBlock"))
                 ELSE IF c.count > Len(buf)
                 THEN ReadResult(c.m, buf, Err("BufferOverflow"))
                 ELSE ReadResult(ClearUeintx(r.m, {"rxouti"}),
                                 Stored(buf, r.bytes), OkLen(c.count))
        ELSE LET m1 == ReadUeintx(m0, {"rxouti"})
                 r  == pull_while_rwal(ClearUeintx(m1, {"rxouti"}),
                                       Len(buf), << >>)
                 m2 == ReadUeintx(r.m, {"rwal"})
             IN  IF v.rxouti = 0
                 THEN ReadResult(m1, buf, Err("WouldBlock"))
                 ELSE IF Rwal(r.m.hw, e) = 1
                 THEN ReadResult(m2, Stored(buf, r.bytes),
                                 Err("BufferOverflow"))
                 ELSE ReadResult(ClearUeintx(m2, {"fifocon"}),
                                 Stored(buf, r.bytes), OkLen(Len(r.bytes)))

\* a read whose non-control branch leaves RXOUTI alone and clears FIFOCON only
read_selected_fifocon_only(m0, endpoint, buf) ==
    LET e  == m0.hw.UENUM.bits
        v  == UEINTX_read(m0.hw, e)
    IN  IF endpoint.ep_type = "Control"
        THEN LET m1 == ReadUeintx(m0, {"rxouti", "rxstpi"})
                 c  == endpoint_byte_count(m1)
                 r  == pull_n(c.m, c.count, << >>)
             IN  IF v.rxouti = 0 /\ v.rxstpi = 0
                 THEN ReadResult(m1, buf, Err("WouldBlock"))
                 ELSE IF c.count > Len(buf)
                 THEN ReadResult(c.m, buf, Err("BufferOverflow"))
                 ELSE ReadResult(ClearUeintx(r.m, {"rxouti", "rxstpi"}),
                                 Stored(buf, r.bytes), OkLen(c.count))
        ELSE LET m1 == ReadUeintx(m0, {"rxouti"})
                 r  == pull_while_rwal(m1, Len(buf), << >>)
                 m2 == ReadUeintx(r.m, {"rwal"})
             IN  IF v.rxouti = 0
                 THEN ReadResult(m1, buf, Err("WouldBlock"))
                 ELSE IF Rwal(r.m.hw, e) = 1
                 THEN ReadResult(m2, Stored(buf, r.bytes),
                                 Err("BufferOverflow"))
                 ELSE ReadResult(ClearUeintx(m2, {"fifocon"}),
                                 Stored(buf, r.bytes), OkLen(Len(r.bytes)))

\* read, from "if endpoint.ep_type == EndpointType::Control" on
read_selected(m0, endpoint, buf) ==
    LET e  == m0.hw.UENUM.bits
        v  == UEINTX_read(m0.hw, e)
    IN  IF endpoint.ep_type = "Control"
        THEN LET m1 == ReadUeintx(m0, {"rxouti", "rxstpi"})
                 c  == endpoint_byte_count(m1)
                 r  == pull_n(c.m, c.count, << >>)
             IN  IF v.rxouti = 0 /\ v.rxstpi = 0
                 THEN ReadResult(m1, buf, Err("WouldBlock"))
                 ELSE IF c.count > Len(buf)
                 THEN ReadResult(c.m, buf, Err("BufferOverflow"))
                 ELSE ReadResult(ClearUeintx(r.m, {"rxouti", "rxstpi"}),
                                 Stored(buf, r.bytes), OkLen(c.count))
        ELSE LET m1 == ReadUeintx(m0, {"rxouti"})
                 r  == pull_while_rwal(ClearUeintx(m1, {"rxouti"}),
                                       Len(buf), << >>)
                 m2 == ReadUeintx(r.m, {"rwal"})
             IN  IF v.rxouti = 0
                 THEN ReadResult(m1, buf, Err("WouldBlock"))
                 ELSE IF Rwal(r.m.hw, e) = 1
                 THEN ReadResult(m2, Stored(buf, r.bytes),
                                 Err("BufferOverflow"))
                 ELSE ReadResult(ClearUeintx(m2, {"fifocon"}),
                                 Stored(buf, r.bytes), OkLen(Len(r.bytes)))

\* fn read(&self, ep_addr, buf)
\* a read that looks the slot up before it selects it
read_lookup_first(ep_addr, buf) ==
    LET sel   == set_current_endpoint(ep_addr.index)
        m0    == Machine([hw EXCEPT !.UENUM = sel.UENUM], sel.accesses)
        found == get_endpoint_table_entry(ep_addr.index)
    IN  IF ~found.ok THEN ReadResult(Machine(hw, << >>), buf, found)
        ELSE IF ~sel.ret.ok THEN ReadResult(m0, buf, sel.ret)
        ELSE read_selected(m0, found.entry, buf)

\* fn read(&self, ep_addr, buf): the slot is selected, then looked up
read(ep_addr, buf) ==
    LET sel   == set_current_endpoint(ep_addr.index)
        m0    == Machine([hw EXCEPT !.UENUM = sel.UENUM], sel.accesses)
        found == get_endpoint_table_entry(ep_addr.index)
    IN  IF ~sel.ret.ok THEN ReadResult(m0, buf, sel.ret)
        ELSE IF ~found.ok THEN ReadResult(m0, buf, found)
        ELSE read_selected(m0, found.entry, buf)

(***************************************************************************)
(* poll                                                                    *)
(***************************************************************************)
\* the values of PollResult
PollNone == [kind |-> "None"]

PollReset == [kind |-> "Reset"]

PollSuspend == [kind |-> "Suspend"]

PollResume == [kind |-> "Resume"]

PollData(ep_out, ep_in_complete, ep_setup) ==
    [kind |-> "Data", ep_out |-> ep_out, ep_in_complete |-> ep_in_complete,
     ep_setup |-> ep_setup]

\* the three masks and pending_ins, as the for loop carries them
Masks(ep_out, ep_setup, ep_in_complete, pending) ==
    [ep_out |-> ep_out, ep_setup |-> ep_setup,
     ep_in_complete |-> ep_in_complete, pending_ins |-> pending]

\* the loop reporting a completed IN without clearing its bit of pending_ins
RECURSIVE scan_keeps_pending(_, _, _)
scan_keeps_pending(i, m, st) ==
    LET index == active_from(i)
        sel   == set_current_endpoint(index)
        m1    == Machine([m.hw EXCEPT !.UENUM = sel.UENUM],
                         m.acc \o sel.accesses)
        m2    == ReadUeintx(m1, {"rxouti", "rxstpi", "txini"})
        v     == UEINTX_read(m1.hw, index)
        out   == IF v.rxouti = 1 THEN u8_or_bit(st.ep_out, index)
                 ELSE st.ep_out
        setup == IF v.rxstpi = 1 THEN u8_or_bit(st.ep_setup, index)
                 ELSE st.ep_setup
        done  == Bit(st.pending_ins, index) # 0 /\ v.txini = 1
    IN  IF index >= MAX_ENDPOINTS THEN [m |-> m, st |-> st]
        ELSE IF ~sel.ret.ok THEN [m |-> m1, st |-> st]
        ELSE scan_keeps_pending(index + 1, m2,
                  Masks(out, setup,
                        IF done THEN u8_or_bit(st.ep_in_complete, index)
                        ELSE st.ep_in_complete,
                        st.pending_ins))

\* the loop selecting every endpoint a second time before it reads UEINTX
RECURSIVE scan_selects_twice(_, _, _)
scan_selects_twice(i, m, st) ==
    LET index == active_from(i)
        sel   == set_current_endpoint(index)
        m1    == Machine([m.hw EXCEPT !.UENUM = sel.UENUM],
                         m.acc \o sel.accesses \o sel.accesses)
        m2    == ReadUeintx(m1, {"rxouti", "rxstpi", "txini"})
        v     == UEINTX_read(m1.hw, index)
        out   == IF v.rxouti = 1 THEN u8_or_bit(st.ep_out, index)
                 ELSE st.ep_out
        setup == IF v.rxstpi = 1 THEN u8_or_bit(st.ep_setup, index)
                 ELSE st.ep_setup
        done  == Bit(st.pending_ins, index) # 0 /\ v.txini = 1
    IN  IF index >= MAX_ENDPOINTS THEN [m |-> m, st |-> st]
        ELSE IF ~sel.ret.ok THEN [m |-> m1, st |-> st]
        ELSE scan_selects_twice(index + 1, m2,
                  Masks(out, setup,
                        IF done THEN u8_or_bit(st.ep_in_complete, index)
                        ELSE st.ep_in_complete,
                        IF done THEN u8_and_not_bit(st.pending_ins, index)
                        ELSE st.pending_ins))

\* for (index, _ep) in self.active_endpoints() { .. }, standing at index i
RECURSIVE scan(_, _, _)
scan(i, m, st) ==
    LET index == active_from(i)
        sel   == set_current_endpoint(index)
        m1    == Machine([m.hw EXCEPT !.UENUM = sel.UENUM],
                         m.acc \o sel.accesses)
        m2    == ReadUeintx(m1, {"rxouti", "rxstpi", "txini"})
        v     == UEINTX_read(m1.hw, index)
        out   == IF v.rxouti = 1 THEN u8_or_bit(st.ep_out, index)
                 ELSE st.ep_out
        setup == IF v.rxstpi = 1 THEN u8_or_bit(st.ep_setup, index)
                 ELSE st.ep_setup
        done  == Bit(st.pending_ins, index) # 0 /\ v.txini = 1
    IN  IF index >= MAX_ENDPOINTS THEN [m |-> m, st |-> st]
        ELSE IF ~sel.ret.ok THEN [m |-> m1, st |-> st]
        ELSE scan(index + 1, m2,
                  Masks(out, setup,
                        IF done THEN u8_or_bit(st.ep_in_complete, index)
                        ELSE st.ep_in_complete,
                        IF done THEN u8_and_not_bit(st.pending_ins, index)
                        ELSE st.pending_ins))

\* what poll leaves: the registers, the accesses, pending_ins and its result
PollOutcome(m, pending, r) ==
    [hw |-> m.hw, acc |-> m.acc, pending_ins |-> pending, ret |-> r]

\* a poll returning Data whenever the clock runs, empty masks or not
poll_endpoints_always_data(m0, udint) ==
    LET sofi_cleared == Merge(UDINT_preserve, [sofi |-> 0])
        m1 == IF udint.sofi = 1
              THEN Machine([m0.hw EXCEPT !.UDINT =
                               FlagsAfterWrite(m0.hw.UDINT, sofi_cleared)],
                           Append(m0.acc, Access("write", "UDINT", {"sofi"},
                                                 sofi_cleared)))
              ELSE m0
        m2 == [m1 EXCEPT !.acc = Append(@, Access("read", "USBCON",
                                                  {"frzclk"}, m1.hw.USBCON))]
        r  == scan(0, m2, Masks(0, 0, 0, pending_ins))
    IN  IF m1.hw.USBCON.frzclk = 0
        THEN IF r.st.ep_out # 0 \/ r.st.ep_setup # 0
                \/ r.st.ep_in_complete # 0
             THEN PollOutcome(r.m, r.st.pending_ins,
                              PollData(r.st.ep_out, r.st.ep_in_complete,
                                       r.st.ep_setup))
             ELSE PollOutcome(r.m, r.st.pending_ins, PollData(0, 0, 0))
        ELSE PollOutcome(m2, pending_ins, PollNone)

\* a poll that never acknowledges SOFI
poll_endpoints_keeps_sofi(m0, udint) ==
    LET sofi_cleared == Merge(UDINT_preserve, [sofi |-> 0])
        m1 == m0
        m2 == [m1 EXCEPT !.acc = Append(@, Access("read", "USBCON",
                                                  {"frzclk"}, m1.hw.USBCON))]
        r  == scan(0, m2, Masks(0, 0, 0, pending_ins))
    IN  IF m1.hw.USBCON.frzclk = 0
        THEN IF r.st.ep_out # 0 \/ r.st.ep_setup # 0
                \/ r.st.ep_in_complete # 0
             THEN PollOutcome(r.m, r.st.pending_ins,
                              PollData(r.st.ep_out, r.st.ep_in_complete,
                                       r.st.ep_setup))
             ELSE PollOutcome(r.m, r.st.pending_ins, PollNone)
        ELSE PollOutcome(m2, pending_ins, PollNone)

\* poll from "if udint.sofi().bit_is_set()" on: no bus event was found
poll_endpoints(m0, udint) ==
    LET sofi_cleared == Merge(UDINT_preserve, [sofi |-> 0])
        m1 == IF udint.sofi = 1
              THEN Machine([m0.hw EXCEPT !.UDINT =
                               FlagsAfterWrite(m0.hw.UDINT, sofi_cleared)],
                           Append(m0.acc, Access("write", "UDINT", {"sofi"},
                                                 sofi_cleared)))
              ELSE m0
        m2 == [m1 EXCEPT !.acc = Append(@, Access("read", "USBCON",
                                                  {"frzclk"}, m1.hw.USBCON))]
        r  == scan(0, m2, Masks(0, 0, 0, pending_ins))
    IN  IF m1.hw.USBCON.frzclk = 0
        THEN IF r.st.ep_out # 0 \/ r.st.ep_setup # 0
                \/ r.st.ep_in_complete # 0
             THEN PollOutcome(r.m, r.st.pending_ins,
                              PollData(r.st.ep_out, r.st.ep_in_complete,
                                       r.st.ep_setup))
             ELSE PollOutcome(r.m, r.st.pending_ins, PollNone)
        ELSE PollOutcome(m2, pending_ins, PollNone)

\* a poll that looks at EORSTI before SUSPI and WAKEUPI
poll_reset_first ==
    LET usbint == hw.USBINT
        udint  == hw.UDINT
        udien  == hw.UDIEN
        m0 == Machine(hw, <<Access("read", "USBINT", {"vbusti"}, usbint),
                            Access("read", "UDINT",
                                   {"suspi", "wakeupi", "eorsti", "sofi"}, udint),
                            Access("read", "UDIEN", {"suspe", "wakeupe"}, udien)>>)
        vbusti_cleared == Merge(USBINT_preserve, [vbusti |-> 0])
        m1 == Machine([hw EXCEPT !.USBINT =
                          FlagsAfterWrite(hw.USBINT, vbusti_cleared)],
                      m0.acc \o
                      <<Access("write", "USBINT", {"vbusti"}, vbusti_cleared),
                        Access("read", "USBSTA", {"vbus"}, hw.USBSTA)>>)
    IN  IF usbint.vbusti = 1
        THEN PollOutcome(m1, pending_ins,
                         IF hw.USBSTA.vbus = 1 THEN PollResume ELSE PollSuspend)
        ELSE IF udint.eorsti = 1
        THEN PollOutcome(m0, pending_ins, PollReset)
        ELSE IF udint.suspi = 1 /\ udien.suspe = 1
        THEN PollOutcome(m0, pending_ins, PollSuspend)
        ELSE IF udint.wakeupi = 1 /\ udien.wakeupe = 1
        THEN PollOutcome(m0, pending_ins, PollResume)
        ELSE poll_endpoints(m0, udint)

\* a poll that reports SUSPI whether the suspend interrupt is enabled or not
poll_ignores_suspe ==
    LET usbint == hw.USBINT
        udint  == hw.UDINT
        udien  == hw.UDIEN
        m0 == Machine(hw, <<Access("read", "USBINT", {"vbusti"}, usbint),
                            Access("read", "UDINT",
                                   {"suspi", "wakeupi", "eorsti", "sofi"}, udint),
                            Access("read", "UDIEN", {"suspe", "wakeupe"}, udien)>>)
        vbusti_cleared == Merge(USBINT_preserve, [vbusti |-> 0])
        m1 == Machine([hw EXCEPT !.USBINT =
                          FlagsAfterWrite(hw.USBINT, vbusti_cleared)],
                      m0.acc \o
                      <<Access("write", "USBINT", {"vbusti"}, vbusti_cleared),
                        Access("read", "USBSTA", {"vbus"}, hw.USBSTA)>>)
    IN  IF usbint.vbusti = 1
        THEN PollOutcome(m1, pending_ins,
                         IF hw.USBSTA.vbus = 1 THEN PollResume ELSE PollSuspend)
        ELSE IF udint.suspi = 1
        THEN PollOutcome(m0, pending_ins, PollSuspend)
        ELSE IF udint.wakeupi = 1 /\ udien.wakeupe = 1
        THEN PollOutcome(m0, pending_ins, PollResume)
        ELSE IF udint.eorsti = 1
        THEN PollOutcome(m0, pending_ins, PollReset)
        ELSE poll_endpoints(m0, udint)

\* fn poll(&self)
poll ==
    LET usbint == hw.USBINT
        udint  == hw.UDINT
        udien  == hw.UDIEN
        m0 == Machine(hw, <<Access("read", "USBINT", {"vbusti"}, usbint),
                            Access("read", "UDINT",
                                   {"suspi", "wakeupi", "eorsti", "sofi"}, udint),
                            Access("read", "UDIEN", {"suspe", "wakeupe"}, udien)>>)
        vbusti_cleared == Merge(USBINT_preserve, [vbusti |-> 0])
        m1 == Machine([hw EXCEPT !.USBINT =
                          FlagsAfterWrite(hw.USBINT, vbusti_cleared)],
                      m0.acc \o
                      <<Access("write", "USBINT", {"vbusti"}, vbusti_cleared),
                        Access("read", "USBSTA", {"vbus"}, hw.USBSTA)>>)
    IN  IF usbint.vbusti = 1
        THEN PollOutcome(m1, pending_ins,
                         IF hw.USBSTA.vbus = 1 THEN PollResume ELSE PollSuspend)
        ELSE IF udint.suspi = 1 /\ udien.suspe = 1
        THEN PollOutcome(m0, pending_ins, PollSuspend)
        ELSE IF udint.wakeupi = 1 /\ udien.wakeupe = 1
        THEN PollOutcome(m0, pending_ins, PollResume)
        ELSE IF udint.eorsti = 1
        THEN PollOutcome(m0, pending_ins, PollReset)
        ELSE poll_endpoints(m0, udint)

(***************************************************************************)
(* The calls the usb-device stack makes once the device is enabled         *)
(***************************************************************************)
\* a packet of n bytes, every byte different
Packet(n) == [k \in 1 .. n |-> k]

\* a caller's receive buffer of n bytes, zeroed
Buffer(n) == [k \in 1 .. n |-> 0]

\* the endpoint indices of the addresses handed to write and read: the slots
\* the devices use, a slot none of them uses, and an index past the table
IoIndices == {0, 1, 2, 3, MAX_ENDPOINTS}

\* the buffers handed to write: empty, short, a full packet, one byte more
WriteBufs == {Packet(0), Packet(1), Packet(8), Packet(9)}

\* the buffers handed to read
ReadBufs == {Buffer(0), Buffer(1), Buffer(8)}

\* write(ep_addr, buf): the stack passes the address of an IN endpoint it
\* allocated (the assert_eq! hold), or an address that was never allocated
WriteCall(indices, bufs) ==
    /\ pc = "idle"
    /\ enabled
    /\ \E index \in indices, buf \in bufs :
          LET ep_addr == EndpointAddress(index, "In")
              r       == write(ep_addr, buf)
          IN  /\ r.ret # Panic
              /\ hw' = r.hw
              /\ trace' = r.acc
              /\ pending_ins' = r.pending_ins
              /\ args' = [ep_addr |-> ep_addr, buf |-> buf, filled |-> buf]
              /\ ret' = r.ret
              /\ unreported' = IF r.ret.ok THEN unreported \cup {index}
                               ELSE unreported
    /\ op' = "write"
    /\ UNCHANGED <<endpoints, alloc_log, clock, pc, cur, enabled>>

Write == WriteCall(IoIndices, WriteBufs)

\* write of one byte to an endpoint of the device, for the behaviours that
\* follow the events of the bus
WriteIn == WriteCall({0, 1}, {Packet(1)})

\* read(ep_addr, buf): the stack passes the address of an OUT endpoint it
\* allocated, or an address that was never allocated
Read ==
    /\ pc = "idle"
    /\ enabled
    /\ \E index \in IoIndices, buf \in ReadBufs :
          LET ep_addr == EndpointAddress(index, "Out")
              r       == read(ep_addr, buf)
          IN  /\ index \in active_endpoints => endpoints[index].ep_dir = "Out"
              /\ hw' = r.hw
              /\ trace' = r.acc
              /\ args' = [ep_addr |-> ep_addr, buf |-> buf, filled |-> r.buf]
              /\ ret' = r.ret
    /\ op' = "read"
    /\ UNCHANGED <<endpoints, alloc_log, clock, pc, cur, enabled, pending_ins,
                   unreported>>

\* poll(): unreported follows what poll reports in ep_in_complete
Poll ==
    /\ pc = "idle"
    /\ enabled
    /\ LET r == poll
       IN  /\ hw' = r.hw
           /\ trace' = r.acc
           /\ pending_ins' = r.pending_ins
           /\ ret' = r.ret
           /\ unreported' =
                 IF r.ret.kind = "Data"
                 THEN {i \in unreported : Bit(r.ret.ep_in_complete, i) = 0}
                 ELSE unreported
    /\ op' = "poll"
    /\ args' = None
    /\ UNCHANGED <<endpoints, alloc_log, clock, pc, cur, enabled>>

\* what a write of v to UECONX leaves in old: STALLRQC set ends the stall
\* request, STALLRQ set starts it, and a 0 written to either has no effect;
\* STALLRQC itself always reads 0
UeconxAfterWrite(old, v) ==
    [epen    |-> v.epen,
     stallrq |-> IF v.stallrqc = 1 THEN 0
                 ELSE IF v.stallrq = 1 THEN 1
                 ELSE old.stallrq]

\* a set_stalled that sets STALLRQC alongside STALLRQ
set_stalled_same_polarity(ep_addr, stalled) ==
    LET sel == set_current_endpoint(ep_addr.index)
        e   == sel.UENUM.bits
        b   == IF stalled THEN 1 ELSE 0
        v   == [epen |-> hw.ep[e].UECONX.epen, stallrq |-> b, stallrqc |-> b]
    IN  IF sel.ret.ok
        THEN [hw  |-> [hw EXCEPT !.UENUM = sel.UENUM,
                                 !.ep[e].UECONX = UeconxAfterWrite(@, v)],
              acc |-> Append(sel.accesses,
                             AccessAt("modify", "UECONX", e,
                                      {"stallrq", "stallrqc"}, v))]
        ELSE [hw |-> hw, acc |-> sel.accesses]

\* fn set_stalled(&self, ep_addr, stalled): when the endpoint can be
\* selected, one modify of UECONX with STALLRQ = stalled, STALLRQC = !stalled
set_stalled(ep_addr, stalled) ==
    LET sel == set_current_endpoint(ep_addr.index)
        e   == sel.UENUM.bits
        b   == IF stalled THEN 1 ELSE 0
        v   == [epen |-> hw.ep[e].UECONX.epen, stallrq |-> b,
                stallrqc |-> 1 - b]
    IN  IF sel.ret.ok
        THEN [hw  |-> [hw EXCEPT !.UENUM = sel.UENUM,
                                 !.ep[e].UECONX = UeconxAfterWrite(@, v)],
              acc |-> Append(sel.accesses,
                             AccessAt("modify", "UECONX", e,
                                      {"stallrq", "stallrqc"}, v))]
        ELSE [hw |-> hw, acc |-> sel.accesses]

\* an is_stalled that reads UECONX whether the endpoint was selected or not
is_stalled_unselected(ep_addr) ==
    LET sel == set_current_endpoint(ep_addr.index)
        e   == sel.UENUM.bits
    IN  [hw  |-> [hw EXCEPT !.UENUM = sel.UENUM],
         acc |-> Append(sel.accesses,
                        AccessAt("read", "UECONX", e, {"stallrq"},
                                 hw.ep[e].UECONX)),
         ret |-> hw.ep[e].UECONX.stallrq = 1]

\* fn is_stalled(&self, ep_addr): STALLRQ of the endpoint as UECONX reads,
\* false when the endpoint cannot be selected
is_stalled(ep_addr) ==
    LET sel == set_current_endpoint(ep_addr.index)
        e   == sel.UENUM.bits
    IN  IF sel.ret.ok
        THEN [hw  |-> [hw EXCEPT !.UENUM = sel.UENUM],
              acc |-> Append(sel.accesses,
                             AccessAt("read", "UECONX", e, {"stallrq"},
                                      hw.ep[e].UECONX)),
              ret |-> hw.ep[e].UECONX.stallrq = 1]
        ELSE [hw |-> hw, acc |-> sel.accesses, ret |-> FALSE]

\* the stack calls set_stalled with any address and either value
SetStalled ==
    /\ pc = "idle"
    /\ enabled
    /\ \E index \in IoIndices, direction \in UsbDirection, stalled \in BOOLEAN :
          LET ep_addr == EndpointAddress(index, direction)
              r       == set_stalled(ep_addr, stalled)
          IN  /\ hw' = r.hw
              /\ trace' = r.acc
              /\ args' = [ep_addr |-> ep_addr, stalled |-> stalled]
    /\ op' = "set_stalled"
    /\ ret' = None
    /\ UNCHANGED <<endpoints, alloc_log, clock, pc, cur, enabled, pending_ins,
                   unreported>>

\* the stack stalls or releases endpoint 1, by either of its addresses
SetStalledIn ==
    /\ pc = "idle"
    /\ enabled
    /\ \E direction \in UsbDirection, stalled \in BOOLEAN :
          LET ep_addr == EndpointAddress(1, direction)
              r       == set_stalled(ep_addr, stalled)
          IN  /\ hw' = r.hw
              /\ trace' = r.acc
              /\ args' = [ep_addr |-> ep_addr, stalled |-> stalled]
    /\ op' = "set_stalled"
    /\ ret' = None
    /\ UNCHANGED <<endpoints, alloc_log, clock, pc, cur, enabled, pending_ins,
                   unreported>>

\* the stack calls is_stalled with any address
IsStalled ==
    /\ pc = "idle"
    /\ enabled
    /\ \E index \in IoIndices, direction \in UsbDirection :
          LET ep_addr == EndpointAddress(index, direction)
              r       == is_stalled(ep_addr)
          IN  /\ hw' = r.hw
              /\ trace' = r.acc
              /\ args' = [ep_addr |-> ep_addr]
              /\ ret' = [stalled |-> r.ret]
    /\ op' = "is_stalled"
    /\ UNCHANGED <<endpoints, alloc_log, clock, pc, cur, enabled, pending_ins,
                   unreported>>

\* a suspend that leaves the suspend interrupt enabled
Suspend_keeps_suspe ==
    /\ pc = "idle"
    /\ enabled
    /\ LET udint  == Merge(UDINT_preserve, [suspi |-> 0, wakeupi |-> 0])
           udien  == Merge(hw.UDIEN, [wakeupe |-> 1])
           usbcon == Merge(hw.USBCON, [frzclk |-> 1])
       IN  /\ hw' = [hw EXCEPT !.UDINT = FlagsAfterWrite(@, udint),
                               !.UDIEN = udien, !.USBCON = usbcon]
           /\ trace' =
                 <<Access("write", "UDINT", {"suspi", "wakeupi"}, udint),
                   Access("modify", "UDIEN", {"wakeupe"}, udien),
                   Access("modify", "USBCON", {"frzclk"}, usbcon)>>
    /\ op' = "suspend"
    /\ args' = None
    /\ ret' = None
    /\ UNCHANGED <<endpoints, alloc_log, clock, pc, cur, enabled, pending_ins,
                   unreported>>

\* the addresses the host assigns
Addresses == {5, 9}

\* fn set_device_address(&self, addr): two modify of UDADDR, the first of
\* UADD (7 bits), the second of ADDEN; each writes back the other field as
\* it was read
set_device_address(addr) ==
    LET first  == [hw.UDADDR EXCEPT !.uadd = addr % 128]
        second == [first EXCEPT !.adden = 1]
    IN  [hw  |-> [hw EXCEPT !.UDADDR = second],
         acc |-> <<Access("modify", "UDADDR", {"uadd"}, first),
                   Access("modify", "UDADDR", {"adden"}, second)>>]

\* the stack calls set_device_address once the host has assigned an address
SetDeviceAddress ==
    /\ pc = "idle"
    /\ enabled
    /\ \E addr \in Addresses :
          LET r == set_device_address(addr)
          IN  /\ hw' = r.hw
              /\ trace' = r.acc
              /\ args' = [addr |-> addr]
    /\ op' = "set_device_address"
    /\ ret' = None
    /\ UNCHANGED <<endpoints, alloc_log, clock, pc, cur, enabled, pending_ins,
                   unreported>>

\* fn suspend(&self)
Suspend ==
    /\ pc = "idle"
    /\ enabled
    /\ LET udint  == Merge(UDINT_preserve, [suspi |-> 0, wakeupi |-> 0])
           udien  == Merge(hw.UDIEN, [wakeupe |-> 1, suspe |-> 0])
           usbcon == Merge(hw.USBCON, [frzclk |-> 1])
       IN  /\ hw' = [hw EXCEPT !.UDINT = FlagsAfterWrite(@, udint),
                               !.UDIEN = udien, !.USBCON = usbcon]
           /\ trace' =
                 <<Access("write", "UDINT", {"suspi", "wakeupi"}, udint),
                   Access("modify", "UDIEN", {"wakeupe", "suspe"}, udien),
                   Access("modify", "USBCON", {"frzclk"}, usbcon)>>
    /\ op' = "suspend"
    /\ args' = None
    /\ ret' = None
    /\ UNCHANGED <<endpoints, alloc_log, clock, pc, cur, enabled, pending_ins,
                   unreported>>

\* suspend in two steps, for the behaviours where the controller acts
\* between its accesses.  The first step is the write that clears SUSPI and
\* WAKEUPI.
SuspendClearUdint ==
    /\ pc = "idle"
    /\ enabled
    /\ LET udint == Merge(UDINT_preserve, [suspi |-> 0, wakeupi |-> 0])
       IN  /\ hw' = [hw EXCEPT !.UDINT = FlagsAfterWrite(@, udint)]
           /\ trace' = <<Access("write", "UDINT", {"suspi", "wakeupi"}, udint)>>
    /\ op' = "suspend"
    /\ pc' = "suspend_udien"
    /\ args' = None
    /\ ret' = None
    /\ UNCHANGED <<endpoints, alloc_log, clock, cur, enabled, pending_ins,
                   unreported>>

\* the second step: the modify of UDIEN and the modify of USBCON that
\* freezes the clock; suspend returns
SuspendFreeze ==
    /\ pc = "suspend_udien"
    /\ LET udien  == Merge(hw.UDIEN, [wakeupe |-> 1, suspe |-> 0])
           usbcon == Merge(hw.USBCON, [frzclk |-> 1])
       IN  /\ hw' = [hw EXCEPT !.UDIEN = udien, !.USBCON = usbcon]
           /\ trace' = trace \o
                 <<Access("modify", "UDIEN", {"wakeupe", "suspe"}, udien),
                   Access("modify", "USBCON", {"frzclk"}, usbcon)>>
    /\ pc' = "idle"
    /\ UNCHANGED <<endpoints, alloc_log, clock, op, cur, enabled>>
    /\ UNCHANGED busvars

\* a resume that leaves the wakeup interrupt enabled
Resume_keeps_wakeupe ==
    /\ pc = "idle"
    /\ enabled
    /\ hw.USBCON.frzclk = 1
    /\ LET usbcon == Merge(hw.USBCON, [frzclk |-> 0])
           udint  == Merge(UDINT_preserve, [wakeupi |-> 0, suspi |-> 0])
           udien  == Merge(hw.UDIEN, [suspe |-> 1])
       IN  /\ hw' = [hw EXCEPT !.USBCON = usbcon,
                               !.UDINT = FlagsAfterWrite(@, udint),
                               !.UDIEN = udien]
           /\ trace' =
                 <<Access("modify", "USBCON", {"frzclk"}, usbcon),
                   Access("write", "UDINT", {"wakeupi", "suspi"}, udint),
                   Access("modify", "UDIEN", {"suspe"}, udien)>>
    /\ op' = "resume"
    /\ args' = None
    /\ ret' = None
    /\ UNCHANGED <<endpoints, alloc_log, clock, pc, cur, enabled, pending_ins,
                   unreported>>

\* fn resume(&self): "may only be called after the peripheral has been
\* previously suspended"
Resume ==
    /\ pc = "idle"
    /\ enabled
    /\ hw.USBCON.frzclk = 1
    /\ LET usbcon == Merge(hw.USBCON, [frzclk |-> 0])
           udint  == Merge(UDINT_preserve, [wakeupi |-> 0, suspi |-> 0])
           udien  == Merge(hw.UDIEN, [wakeupe |-> 0, suspe |-> 1])
       IN  /\ hw' = [hw EXCEPT !.USBCON = usbcon,
                               !.UDINT = FlagsAfterWrite(@, udint),
                               !.UDIEN = udien]
           /\ trace' =
                 <<Access("modify", "USBCON", {"frzclk"}, usbcon),
                   Access("write", "UDINT", {"wakeupi", "suspi"}, udint),
                   Access("modify", "UDIEN", {"wakeupe", "suspe"}, udien)>>
    /\ op' = "resume"
    /\ args' = None
    /\ ret' = None
    /\ UNCHANGED <<endpoints, alloc_log, clock, pc, cur, enabled, pending_ins,
                   unreported>>

(***************************************************************************)
(* force_reset: two interrupt::free sections with delay_ms(1) between      *)
(* them.  Interrupts are enabled during the delay, so a handler may run    *)
(* there and call the driver.                                              *)
(***************************************************************************)
\* the first section: udcon().modify(|_, w| w.detach().set_bit())
ForceResetDetach ==
    /\ pc = "idle"
    /\ enabled
    /\ LET udcon == Merge(hw.UDCON, [detach |-> 1])
       IN  /\ hw' = [hw EXCEPT !.UDCON = udcon]
           /\ trace' = <<Access("modify", "UDCON", {"detach"}, udcon)>>
    /\ op' = "force_reset"
    /\ args' = None
    /\ ret' = None
    /\ pc' = "force_reset_delay"
    /\ UNCHANGED <<endpoints, alloc_log, clock, cur, enabled, pending_ins,
                   unreported>>

\* the second section, once the delay is over:
\* udcon().modify(|_, w| w.detach().clear_bit()), then Ok(())
ForceResetAttach ==
    /\ pc = "force_reset_delay"
    /\ LET udcon == Merge(hw.UDCON, [detach |-> 0])
       IN  /\ hw' = [hw EXCEPT !.UDCON = udcon]
           /\ trace' = Append(trace, Access("modify", "UDCON", {"detach"}, udcon))
    /\ ret' = [ok |-> TRUE]
    /\ pc' = "idle"
    /\ UNCHANGED <<endpoints, alloc_log, clock, op, cur, enabled, pending_ins,
                   args, unreported>>

\* an access made by a call of an interrupt handler
InHandler(e) ==
    [kind |-> e.kind, reg |-> e.reg, ep |-> e.ep, fields |-> e.fields,
     val |-> e.val, handler |-> TRUE]

\* during the delay of force_reset an interrupt handler calls poll (the
\* driver "is designed to be callable from either the main loop or an
\* interrupt handler"): poll runs as a whole, in its own section, between
\* the two accesses of force_reset; one such call per delay is followed
HandlerPoll ==
    /\ pc = "force_reset_delay"
    /\ \A k \in 1 .. Len(trace) : "handler" \notin DOMAIN trace[k]
    /\ LET r == poll
       IN  /\ hw' = r.hw
           /\ trace' = trace \o [k \in 1 .. Len(r.acc) |-> InHandler(r.acc[k])]
           /\ pending_ins' = r.pending_ins
           /\ unreported' =
                 IF r.ret.kind = "Data"
                 THEN {i \in unreported : Bit(r.ret.ep_in_complete, i) = 0}
                 ELSE unreported
    /\ UNCHANGED <<endpoints, alloc_log, clock, op, pc, cur, enabled, args, ret>>

(***************************************************************************)
(* The hardware, running beside the driver                                 *)
(***************************************************************************)
\* an event of the bus ends what is known of the last call: its record (the
\* accesses, the arguments and the returned value) is kept while the call is
\* in progress and dropped once it has returned
Forget ==
    IF pc = "idle"
    THEN /\ trace' = << >>
         /\ op' = "event"
         /\ args' = None
         /\ ret' = None
    ELSE UNCHANGED <<trace, op, args, ret>>

\* the PLL, once enabled, locks
HwPllLock ==
    /\ hw.PLLCSR.plle = 1
    /\ hw.PLLCSR.plock = 0
    /\ hw' = [hw EXCEPT !.PLLCSR.plock = 1]
    /\ UNCHANGED <<endpoints, alloc_log, clock, trace, op, pc, cur, enabled>>
    /\ UNCHANGED busvars

\* the host resets the bus of an attached device: EORSTI is raised and the
\* device is back at address 0, its address disabled
HwEndOfReset ==
    /\ hw.USBCON.usbe = 1
    /\ hw.UDCON.detach = 0
    /\ hw.UDINT.eorsti = 0
    /\ hw' = [hw EXCEPT !.UDINT.eorsti = 1,
                        !.UDADDR = [uadd |-> 0, adden |-> 0]]
    /\ Forget
    /\ UNCHANGED <<endpoints, alloc_log, clock, pc, cur, enabled, pending_ins,
                   unreported>>

\* the device is attached and its clock runs: the host reaches it
OnTheBus ==
    /\ hw.USBCON.usbe = 1
    /\ hw.USBCON.frzclk = 0
    /\ hw.UDCON.detach = 0

\* endpoint i is enabled and its bank allocated
Configured(i) ==
    /\ hw.ep[i].UECONX.epen = 1
    /\ hw.ep[i].UECFG1X.alloc = 1
    /\ hw.ep[i].UESTA0X.cfgok = 1

\* the eight bytes of a SETUP packet (GET_DESCRIPTOR, device, 18 bytes)
SetupPacket == <<128, 6, 0, 1, 0, 0, 18, 0>>

\* the packets the host sends to an OUT endpoint
HostPackets == {Packet(0), Packet(1), Packet(8)}

\* a SETUP packet arrives at a control endpoint: RXSTPI is raised, the bank
\* holds the packet, the endpoint is not ready for an IN, and a stall
\* request ends
HwSetup ==
    /\ OnTheBus
    /\ \E i \in Slots :
          /\ Configured(i)
          /\ hw.ep[i].UECFG0X.eptype = 0
          /\ hw.ep[i].UEINTX.rxstpi = 0
          /\ hw' = [hw EXCEPT !.ep[i].UECONX.stallrq = 0,
                              !.ep[i].UEINTX.rxstpi = 1,
                              !.ep[i].UEINTX.rxouti = 0,
                              !.ep[i].UEINTX.txini = 0,
                              !.ep[i].fifo = SetupPacket]
    /\ Forget
    /\ UNCHANGED <<endpoints, alloc_log, clock, pc, cur, enabled, pending_ins,
                   unreported>>

\* an OUT packet arrives in the free bank of an OUT or control endpoint:
\* RXOUTI is raised (with FIFOCON unless the endpoint is a control endpoint)
HwOut ==
    /\ OnTheBus
    /\ \E i \in Slots, packet \in HostPackets :
          /\ Configured(i)
          /\ hw.ep[i].UEINTX.rxouti = 0
          /\ IF hw.ep[i].UECFG0X.eptype = 0
             THEN /\ hw.ep[i].UEINTX.rxstpi = 0
                  /\ hw' = [hw EXCEPT !.ep[i].UEINTX.rxouti = 1,
                                      !.ep[i].UEINTX.txini = 0,
                                      !.ep[i].fifo = packet]
             ELSE /\ hw.ep[i].UECFG0X.epdir = 0
                  /\ hw.ep[i].UEINTX.fifocon = 0
                  /\ hw' = [hw EXCEPT !.ep[i].UEINTX.rxouti = 1,
                                      !.ep[i].UEINTX.fifocon = 1,
                                      !.ep[i].fifo = packet]
    /\ Forget
    /\ UNCHANGED <<endpoints, alloc_log, clock, pc, cur, enabled, pending_ins,
                   unreported>>

\* the bank of an IN or control endpoint is free (its packet was taken by
\* the host, or nothing was in it): TXINI is raised (with FIFOCON unless the
\* endpoint is a control endpoint)
HwIn ==
    /\ OnTheBus
    /\ \E i \in Slots :
          /\ Configured(i)
          /\ hw.ep[i].UEINTX.txini = 0
          /\ IF hw.ep[i].UECFG0X.eptype = 0
             THEN /\ hw.ep[i].UEINTX.rxstpi = 0
                  /\ hw.ep[i].UEINTX.rxouti = 0
                  /\ hw' = [hw EXCEPT !.ep[i].UEINTX.txini = 1,
                                      !.ep[i].fifo = << >>]
             ELSE /\ hw.ep[i].UECFG0X.epdir = 1
                  /\ hw.ep[i].UEINTX.fifocon = 0
                  /\ hw' = [hw EXCEPT !.ep[i].UEINTX.txini = 1,
                                      !.ep[i].UEINTX.fifocon = 1,
                                      !.ep[i].fifo = << >>]
    /\ Forget
    /\ UNCHANGED <<endpoints, alloc_log, clock, pc, cur, enabled, pending_ins,
                   unreported>>

\* a start of frame is seen
HwSof ==
    /\ OnTheBus
    /\ hw.UDINT.sofi = 0
    /\ hw' = [hw EXCEPT !.UDINT.sofi = 1]
    /\ Forget
    /\ UNCHANGED <<endpoints, alloc_log, clock, pc, cur, enabled, pending_ins,
                   unreported>>

\* the bus has been idle for 3 ms
HwSuspend ==
    /\ OnTheBus
    /\ hw.UDINT.suspi = 0
    /\ hw' = [hw EXCEPT !.UDINT.suspi = 1]
    /\ Forget
    /\ UNCHANGED <<endpoints, alloc_log, clock, pc, cur, enabled, pending_ins,
                   unreported>>

\* activity on the bus of an attached device, seen also while the clock is
\* frozen
HwWakeup ==
    /\ hw.USBCON.usbe = 1
    /\ hw.UDCON.detach = 0
    /\ hw.UDINT.wakeupi = 0
    /\ hw' = [hw EXCEPT !.UDINT.wakeupi = 1]
    /\ Forget
    /\ UNCHANGED <<endpoints, alloc_log, clock, pc, cur, enabled, pending_ins,
                   unreported>>

\* the cable is plugged or pulled: VBUS changes and VBUSTI is raised
HwVbus ==
    /\ hw.USBCON.usbe = 1
    /\ hw.USBCON.otgpade = 1
    /\ hw' = [hw EXCEPT !.USBSTA.vbus = 1 - @, !.USBINT.vbusti = 1]
    /\ Forget
    /\ UNCHANGED <<endpoints, alloc_log, clock, pc, cur, enabled, pending_ins,
                   unreported>>

(***************************************************************************)
(* Specifications                                                          *)
(***************************************************************************)
ClockUSB == {"MHz16", "MHz8"}

\* UsbdBus::new: endpoints: Default::default(); no operation has run
InitDriver ==
    /\ trace = << >>
    /\ op = "new"
    /\ pc = "idle"
    /\ cur = 0
    /\ enabled = FALSE
    /\ pending_ins = 0
    /\ args = None
    /\ ret = None
    /\ unreported = {}

\* the endpoint table is being filled: any alloc_ep call, MaxCalls of them
Init ==
    /\ endpoints = [i \in Slots |-> None]
    /\ alloc_log = << >>
    /\ clock = "MHz16"
    /\ hw = Registers(0, 1)
    /\ InitDriver

Next == AllocEpNone \/ AllocEpAddr

Spec == Init /\ [][Next]_vars

\* the endpoint table is being filled by calls that leave the address open
NextAllocNone == AllocEpNoneSeq

SpecAllocNone == Init /\ [][NextAllocNone]_vars

(***************************************************************************)
(* enable and reset on a configured device.  The table enable starts from  *)
(* is the one a sequence of alloc_ep calls has left.                       *)
(***************************************************************************)
Call(ep_dir, ep_addr, ep_type, max_packet_size) ==
    [ep_dir |-> ep_dir, ep_addr |-> ep_addr, ep_type |-> ep_type,
     max_packet_size |-> max_packet_size]

\* the table and the log after the calls cs, made from the table eps
RECURSIVE alloc_run(_, _, _)
alloc_run(eps, log, cs) ==
    IF cs = << >> THEN [endpoints |-> eps, alloc_log |-> log]
    ELSE LET c == Head(cs)
             r == alloc_ep(eps, c.ep_dir, c.ep_addr, c.ep_type,
                           c.max_packet_size)
         IN  alloc_run(r.endpoints,
                       Append(log, [ep_dir |-> c.ep_dir, ep_addr |-> c.ep_addr,
                                    ep_type |-> c.ep_type,
                                    max_packet_size |-> c.max_packet_size,
                                    ret |-> r.ret]),
                       Tail(cs))

\* what the usb-device stack asks for the control endpoint: both directions
ControlCalls(max_packet_size) ==
    <<Call("Out", EndpointAddress(0, "Out"), "Control", max_packet_size),
      Call("In", EndpointAddress(0, "In"), "Control", max_packet_size)>>

\* a CDC-ACM serial port: notification, data in, data out
CdcAcmCalls ==
    <<Call("In", None, "Interrupt", 8), Call("In", None, "Bulk", 64),
      Call("Out", None, "Bulk", 64)>>

\* the device setups enable is run on: no endpoint at all; the control
\* endpoint alone; a serial port; a keyboard; a table with a hole at slot 0
\* and an isochronous endpoint in the large slot; a full table
DeviceSetups ==
    { << >>,
      ControlCalls(8),
      ControlCalls(64) \o CdcAcmCalls,
      ControlCalls(8) \o <<Call("In", None, "Interrupt", 8)>>,
      <<Call("Out", EndpointAddress(2, "Out"), "Bulk", 64),
        Call("In", None, "Isochronous", 256)>>,
      ControlCalls(64) \o CdcAcmCalls \o CdcAcmCalls }

InitEnable ==
    /\ \E cs \in DeviceSetups :
          LET r == alloc_run([i \in Slots |-> None], << >>, cs)
          IN  /\ endpoints = r.endpoints
              /\ alloc_log = r.alloc_log
    /\ clock \in ClockUSB
    /\ \E pll_on \in {0, 1}, frzclk \in {0, 1} : hw = Registers(pll_on, frzclk)
    /\ InitDriver

NextEnable ==
    \/ EnableCall
    \/ EnablePindiv
    \/ EnablePllfrq
    \/ EnablePlle
    \/ EnablePlock
    \/ EnableUvrege
    \/ EnableUsbe
    \/ EnableFrzclk
    \/ ConfigureSelect
    \/ ConfigureEpen
    \/ ConfigureAllocClear
    \/ ConfigureUecfg0x
    \/ ConfigureUecfg1x
    \/ ConfigureAllocSet
    \/ ConfigureCfgok
    \/ ConfigureUeienx
    \/ EnableDetach
    \/ EnableUdien
    \/ ResetCall
    \/ ResetReadUdint
    \/ ResetEorsti
    \/ ResetClearUdint
    \/ ResetUdien
    \/ HwPllLock
    \/ HwEndOfReset

SpecEnable == InitEnable /\ [][NextEnable]_vars

(***************************************************************************)
(* The device on the bus: enable, then the calls of the stack and the      *)
(* events of the hardware in any order                                     *)
(***************************************************************************)
\* the devices put on the bus, with banks of eight bytes: the control
\* endpoint alone; an interrupt IN endpoint at slot 1 alone; a bulk OUT
\* endpoint at slot 3 alone
BusSetups ==
    { ControlCalls(8),
      <<Call("In", None, "Interrupt", 8)>>,
      <<Call("Out", EndpointAddress(3, "Out"), "Bulk", 8)>> }

InitBus ==
    /\ \E cs \in BusSetups :
          LET r == alloc_run([i \in Slots |-> None], << >>, cs)
          IN  /\ endpoints = r.endpoints
              /\ alloc_log = r.alloc_log
    /\ clock = "MHz16"
    /\ hw = Registers(0, 1)
    /\ InitDriver

\* enable, step by step, with the PLL beside it
EnableSteps ==
    \/ EnableCall
    \/ EnablePindiv
    \/ EnablePllfrq
    \/ EnablePlle
    \/ EnablePlock
    \/ EnableUvrege
    \/ EnableUsbe
    \/ EnableFrzclk
    \/ ConfigureSelect
    \/ ConfigureEpen
    \/ ConfigureAllocClear
    \/ ConfigureUecfg0x
    \/ ConfigureUecfg1x
    \/ ConfigureAllocSet
    \/ ConfigureCfgok
    \/ ConfigureUeienx
    \/ EnableDetach
    \/ EnableUdien
    \/ HwPllLock

\* the packets that come and go
EndpointEvents == HwSetup \/ HwOut \/ HwIn

\* reset, step by step (its configure_endpoint steps are those of enable)
ResetSteps ==
    \/ ResetCall
    \/ ResetReadUdint
    \/ ResetEorsti
    \/ ResetClearUdint
    \/ ResetUdien

NextBus ==
    \/ EnableSteps
    \/ Write
    \/ Read
    \/ Poll
    \/ EndpointEvents

SpecBus == InitBus /\ [][NextBus]_vars

(***************************************************************************)
(* The events of the bus: a device with the control endpoint and an        *)
(* interrupt IN endpoint is enabled, polled, reset, suspended and resumed  *)
(* while the hardware raises its flags                                     *)
(***************************************************************************)
InitEvents ==
    /\ LET r == alloc_run([i \in Slots |-> None], << >>,
                          ControlCalls(8) \o <<Call("In", None, "Interrupt", 8)>>)
       IN  /\ endpoints = r.endpoints
           /\ alloc_log = r.alloc_log
    /\ clock = "MHz16"
    /\ hw = Registers(0, 1)
    /\ InitDriver

BusEvents == HwSof \/ HwSuspend \/ HwWakeup \/ HwVbus \/ HwEndOfReset

NextEvents ==
    \/ EnableSteps
    \/ Poll
    \/ Suspend
    \/ Resume
    \/ WriteIn
    \/ EndpointEvents
    \/ BusEvents

SpecEvents == InitEvents /\ [][NextEvents]_vars

(***************************************************************************)
(* The stall requests: the devices of BusSetups are enabled, suspended and *)
(* resumed while the stack sets and asks the stall of any endpoint         *)
(***************************************************************************)
NextStall ==
    \/ EnableSteps
    \/ SetStalled
    \/ IsStalled
    \/ Suspend
    \/ Resume
    \/ HwSetup

SpecStall == InitBus /\ [][NextStall]_vars

(***************************************************************************)
(* Suspend and resume: the device of InitEvents is enabled and reset, then *)
(* suspended and resumed by the stack while the bus goes idle and wakes    *)
(***************************************************************************)
NextSuspend ==
    \/ EnableSteps
    \/ ResetSteps
    \/ Suspend
    \/ Resume
    \/ WriteIn
    \/ HwIn
    \/ HwSuspend
    \/ HwWakeup

SpecSuspend == InitEvents /\ [][NextSuspend]_vars

(***************************************************************************)
(* The address of the device: the host resets the bus and sends SETUP      *)
(* packets, the stack polls, resets and sets the address the host assigns  *)
(***************************************************************************)
NextAddress ==
    \/ EnableSteps
    \/ ResetSteps
    \/ SetDeviceAddress
    \/ Poll
    \/ HwEndOfReset
    \/ HwSetup

SpecAddress == InitEvents /\ [][NextAddress]_vars

(***************************************************************************)
(* Transfers on a device that is suspended and resumed: the devices of     *)
(* BusSetups, with write and read called while the clock is frozen too     *)
(***************************************************************************)
NextFrozen ==
    \/ EnableSteps
    \/ Write
    \/ Read
    \/ Suspend
    \/ Resume
    \/ EndpointEvents

SpecFrozen == InitBus /\ [][NextFrozen]_vars

(***************************************************************************)
(* force_reset: the device of InitEvents is enabled, polled from the main  *)
(* program and from an interrupt handler, and detached and attached again  *)
(***************************************************************************)
NextForceReset ==
    \/ EnableSteps
    \/ ForceResetDetach
    \/ ForceResetAttach
    \/ HandlerPoll
    \/ Poll
    \/ HwSetup
    \/ HwSof
    \/ HwVbus
    \/ HwEndOfReset

SpecForceReset == InitEvents /\ [][NextForceReset]_vars

(***************************************************************************)
(* The interrupt flags: the device of InitEvents is enabled, polled and    *)
(* reset step by step while the controller raises the flags of UDINT and   *)
(* USBINT at any time, between two accesses of reset too                   *)
(***************************************************************************)
NextFlags ==
    \/ EnableSteps
    \/ ResetSteps
    \/ Poll
    \/ HwSof
    \/ HwSuspend
    \/ HwWakeup
    \/ HwVbus
    \/ HwEndOfReset

SpecFlags == InitEvents /\ [][NextFlags]_vars

(***************************************************************************)
(* The writes to the flag registers: every operation that writes UDINT,    *)
(* UEINTX or USBINT is called on the device of InitEvents                  *)
(***************************************************************************)
NextMasks ==
    \/ EnableSteps
    \/ ResetSteps
    \/ Poll
    \/ Suspend
    \/ Resume
    \/ WriteIn
    \/ HwIn
    \/ HwSof
    \/ HwVbus

SpecMasks == InitEvents /\ [][NextMasks]_vars

(***************************************************************************)
(* The size of the banks: enable and reset program a device whose table    *)
(* alloc_ep has filled with endpoints of any max_packet_size               *)
(***************************************************************************)
\* max_packet_size values asked of alloc_ep: nothing, one byte, powers of
\* two and values between them, the capacities and one above each
OddPacketSizes == {0, 1, 8, 9, 33, 64, 65, 200, 256, 257}

\* alloc_ep is asked for the control endpoint, for the large slot and for a
\* small one, each with a size of its own; a call it refuses leaves its
\* slot free
InitSizes ==
    /\ \E s0 \in {8, 64}, s1, s2 \in OddPacketSizes :
          LET r == alloc_run([i \in Slots |-> None], << >>,
                     <<Call("Out", EndpointAddress(0, "Out"), "Control", s0),
                       Call("In", EndpointAddress(1, "In"), "Isochronous", s1),
                       Call("Out", None, "Bulk", s2)>>)
          IN  /\ endpoints = r.endpoints
              /\ alloc_log = r.alloc_log
    /\ clock = "MHz16"
    /\ hw = Registers(0, 1)
    /\ InitDriver

NextSizes == EnableSteps \/ ResetSteps

SpecSizes == InitSizes /\ [][NextSizes]_vars

(***************************************************************************)
(* The selection of endpoints: every operation that touches a register of  *)
(* an endpoint is called on the devices of BusSetups, with the clock       *)
(* running and with the clock frozen by suspend                            *)
(***************************************************************************)
NextSelect ==
    \/ EnableSteps
    \/ ResetSteps
    \/ WriteIn
    \/ Read
    \/ Poll
    \/ SetStalled
    \/ IsStalled
    \/ Suspend
    \/ Resume
    \/ HwSetup
    \/ HwIn

SpecSelect == InitBus /\ [][NextSelect]_vars

(***************************************************************************)
(* The suspended device: the device of InitEvents is enabled, reset,       *)
(* suspended in two steps, polled and resumed while the bus goes idle,     *)
(* wakes, and the cable is plugged and pulled                              *)
(***************************************************************************)
NextSuspended ==
    \/ EnableSteps
    \/ ResetSteps
    \/ SuspendClearUdint
    \/ SuspendFreeze
    \/ Resume
    \/ Poll
    \/ HwSuspend
    \/ HwWakeup
    \/ HwVbus

SpecSuspended == InitEvents /\ [][NextSuspended]_vars

(***************************************************************************)
(* Every call of the stack: alloc_ep gives the device its control endpoint *)
(* and, before enable, an IN endpoint or not; then every operation of the  *)
(* driver is called while the host takes the packets written               *)
(***************************************************************************)
InitStack ==
    /\ LET r == alloc_run([i \in Slots |-> None], << >>, ControlCalls(8))
       IN  /\ endpoints = r.endpoints
           /\ alloc_log = r.alloc_log
    /\ clock = "MHz16"
    /\ hw = Registers(0, 1)
    /\ InitDriver

NextStack ==
    \/ AllocEpIn
    \/ EnableSteps
    \/ ResetSteps
    \/ WriteIn
    \/ Read
    \/ Poll
    \/ SetStalledIn
    \/ IsStalled
    \/ Suspend
    \/ Resume
    \/ SetDeviceAddress
    \/ ForceResetDetach
    \/ ForceResetAttach
    \/ HwIn

SpecStack == InitStack /\ [][NextStack]_vars

(***************************************************************************)
(* The reset of the bus: the same device is reset by the stack, at any     *)
(* time once enabled, while it writes and the hardware raises its flags    *)
(***************************************************************************)
NextReset ==
    \/ EnableSteps
    \/ ResetSteps
    \/ WriteIn
    \/ HwIn
    \/ HwSuspend
    \/ HwWakeup
    \/ HwEndOfReset

SpecReset == InitEvents /\ [][NextReset]_vars

(***************************************************************************)
(* Properties of alloc_ep                                                  *)
(***************************************************************************)
\* the slot capacities as the specification lists them, for indices 0..6
Capacity(i) == <<64, 256, 64, 64, 64, 64, 64>>[i + 1]

\* this step is one alloc_ep call, and NewCall is that call with its result
IsAllocStep == Len(alloc_log') = Len(alloc_log) + 1

NewCall == alloc_log'[Len(alloc_log')]

\* the slots of 1..6 that are free in eps and hold max_packet_size bytes
FreeFits(eps, max_packet_size) ==
    {i \in 1 .. 6 : eps[i] = None /\ Capacity(i) >= max_packet_size}

Lowest(S) == CHOOSE i \in S : \A j \in S : i <= j

\* what unspecified-address allocation of the call c does on the table eps:
\* the lowest free fitting slot of 1..6 is filled and returned, or the call
\* fails with EndpointMemoryOverflow and the table stays
UnspecifiedAllocation(eps, c, eps2) ==
    IF FreeFits(eps, c.max_packet_size) = {}
    THEN c.ret = Err("EndpointMemoryOverflow") /\ eps2 = eps
    ELSE LET m == Lowest(FreeFits(eps, c.max_packet_size))
         IN  /\ m # 0
             /\ c.ret = Ok(EndpointAddress(m, c.ep_dir))
             /\ eps2 = [eps EXCEPT ![m] =
                   EndpointTableEntry(c.ep_type, c.ep_dir, c.max_packet_size)]

OccupiedOrTooSmall(eps, c) ==
    /\ c.ep_addr # None
    /\ c.ep_addr.index < 7
    /\ \/ eps[c.ep_addr.index] # None
       \/ Capacity(c.ep_addr.index) < c.max_packet_size

\* C2 as claimed: alloc_ep with a specified address whose slot is already
\* allocated, or too small for max_packet_size, falls back to
\* unspecified-address allocation with the same type, direction and size.
C2_FallsBackAsClaimed ==
    [][(/\ IsAllocStep
        /\ OccupiedOrTooSmall(endpoints, NewCall)
        /\ ~(NewCall.ep_addr.index = 0 /\ NewCall.ep_addr.direction = "In"))
         => UnspecifiedAllocation(endpoints, NewCall, endpoints')]_vars

\* C2 amended: alloc_ep with a specified address other than (0, In) whose
\* slot is already allocated, or too small for max_packet_size, returns
\* InvalidEndpoint and leaves the table unchanged, also when another slot is
\* free and large enough: there is no fallback.
C2_OccupiedOrTooSmallIsInvalidEndpoint ==
    [][(/\ IsAllocStep
        /\ OccupiedOrTooSmall(endpoints, NewCall)
        /\ ~(NewCall.ep_addr.index = 0 /\ NewCall.ep_addr.direction = "In"))
         => (/\ NewCall.ret = Err("InvalidEndpoint")
             /\ endpoints' = endpoints)]_vars

\* C2 witness: slot 1 is taken, slot 2 is free and large enough, and a
\* second request for slot 1 was refused
C2_Witness ==
    /\ Len(alloc_log) = 2
    /\ alloc_log[1].ret.ok
    /\ alloc_log[1].ret.index = 1
    /\ alloc_log[2].ep_addr # None
    /\ alloc_log[2].ep_addr.index = 1
    /\ alloc_log[2].max_packet_size = 8
    /\ alloc_log[2].ret = Err("InvalidEndpoint")
    /\ endpoints[2] = None

\* the two requests the stack makes for the control endpoint
Ep0OutCall(c) ==
    /\ c.ep_addr = EndpointAddress(0, "Out")
    /\ c.ep_dir = "Out"
    /\ c.ep_type = "Control"
    /\ c.max_packet_size = 8

Ep0InCall(c) ==
    /\ c.ep_addr = EndpointAddress(0, "In")
    /\ c.ep_dir = "In"
    /\ c.ep_type = "Control"
    /\ c.max_packet_size = 8

\* C3: alloc_ep with the address (0, In) returns Ok((0, In)) and leaves the
\* table unchanged, whatever the table holds and whatever type and size are
\* requested; and after the two control requests on an empty table, in either
\* order, both have succeeded and the table has exactly one entry, at index
\* 0, with direction Out.
C3_Ep0InIsNoOp ==
    [][IsAllocStep =>
         /\ (NewCall.ep_addr = EndpointAddress(0, "In"))
              => (/\ NewCall.ret = Ok(EndpointAddress(0, "In"))
                  /\ endpoints' = endpoints)
         /\ (/\ Len(alloc_log') = 2
             /\ \/ Ep0OutCall(alloc_log'[1]) /\ Ep0InCall(alloc_log'[2])
                \/ Ep0InCall(alloc_log'[1]) /\ Ep0OutCall(alloc_log'[2]))
              => (/\ alloc_log'[1].ret.ok /\ alloc_log'[2].ret.ok
                  /\ {i \in Slots : endpoints'[i] # None} = {0}
                  /\ endpoints'[0].ep_dir = "Out")]_vars

\* C3 witness: with slot 0 already allocated, (0, In) was requested with a
\* type and a size slot 0 could not take, and the call succeeded
C3_Witness ==
    /\ Len(alloc_log) = 2
    /\ endpoints[0] # None
    /\ alloc_log[2].ep_addr = EndpointAddress(0, "In")
    /\ alloc_log[2].ep_type = "Bulk"
    /\ alloc_log[2].max_packet_size = 257
    /\ alloc_log[2].ret = Ok(EndpointAddress(0, "In"))

\* C4: in a sequence of alloc_ep calls that all leave the address open, made
\* from the empty table, the indices of the successful calls are strictly
\* increasing and never 0; and (In, Interrupt, 8), (In, Bulk, 64),
\* (Out, Bulk, 64) return (1, In), (2, In), (3, Out).
C4_NoneIndicesIncrease ==
    (\A k \in 1 .. Len(alloc_log) : alloc_log[k].ep_addr = None)
      => /\ \A k \in 1 .. Len(alloc_log) :
              alloc_log[k].ret.ok => alloc_log[k].ret.index # 0
         /\ \A j, k \in 1 .. Len(alloc_log) :
              (j < k /\ alloc_log[j].ret.ok /\ alloc_log[k].ret.ok)
                => alloc_log[j].ret.index < alloc_log[k].ret.index
         /\ (/\ Len(alloc_log) = 3
             /\ [k \in 1 .. 3 |-> <<alloc_log[k].ep_dir, alloc_log[k].ep_type,
                                    alloc_log[k].max_packet_size>>]
                  = <<<<"In", "Interrupt", 8>>, <<"In", "Bulk", 64>>,
                      <<"Out", "Bulk", 64>>>>)
              => [k \in 1 .. 3 |-> alloc_log[k].ret]
                   = <<Ok(EndpointAddress(1, "In")), Ok(EndpointAddress(2, "In")),
                       Ok(EndpointAddress(3, "Out"))>>

\* C4 witness: three calls with no address, all successful, the first of
\* them for more than 64 bytes
C4_Witness ==
    /\ Len(alloc_log) = 3
    /\ \A k \in 1 .. 3 : alloc_log[k].ep_addr = None /\ alloc_log[k].ret.ok
    /\ alloc_log[1].max_packet_size = 256
    /\ alloc_log[3].ret.index = 3

\* C5: every allocated slot i holds a max_packet_size of at most the slot's
\* capacity (64 for slot 0, 256 for slot 1, 64 for slots 2..6).
C5_SizeWithinCapacity ==
    \A i \in Slots :
        endpoints[i] # None => endpoints[i].max_packet_size <= Capacity(i)

\* C5 witness: slot 1 holds 256 bytes, and a request of 256 bytes for slot 2
\* was made and is not in the table
C5_Witness ==
    /\ Len(alloc_log) = 2
    /\ endpoints[1] # None
    /\ endpoints[1].max_packet_size = 256
    /\ alloc_log[2].ep_addr # None
    /\ alloc_log[2].ep_addr.index = 2
    /\ alloc_log[2].max_packet_size = 256
    /\ endpoints[2] = None

\* C6: alloc_ep with a specified address of index >= 7 returns
\* InvalidEndpoint, and every alloc_ep call that returns an error leaves the
\* endpoint table as it was.
C6_ErrorsLeaveTable ==
    [][IsAllocStep =>
         /\ (NewCall.ep_addr # None /\ NewCall.ep_addr.index >= 7)
              => NewCall.ret = Err("InvalidEndpoint")
         /\ (~NewCall.ret.ok) => endpoints' = endpoints]_vars

\* C6 witness: index 7 was requested on a table that holds an endpoint, and
\* refused
C6_Witness ==
    /\ Len(alloc_log) = 2
    /\ alloc_log[1].ret.ok
    /\ endpoints[alloc_log[1].ret.index] # None
    /\ alloc_log[2].ep_addr # None
    /\ alloc_log[2].ep_addr.index = 7
    /\ alloc_log[2].ret = Err("InvalidEndpoint")


(***************************************************************************)
(* Properties of enable and reset, stated on the trace of register         *)
(* accesses the running operation has made                                 *)
(***************************************************************************)
\* what a statement asks of one access: its kind, its register, the selected
\* endpoint (-1 for an unbanked register), fields the driver must name, and
\* <<field, bit>> pairs the value read or written must hold
Pattern(kinds, reg, ep, named, val) ==
    [kinds |-> kinds, reg |-> reg, ep |-> ep, named |-> named, val |-> val]

Matches(pat, e) ==
    /\ e.kind \in pat.kinds
    /\ e.reg = pat.reg
    /\ e.ep = pat.ep
    /\ pat.named \subseteq e.fields
    /\ \A p \in pat.val : e.val[p[1]] = p[2]

Writes == {"write", "modify"}

\* tr contains accesses matching pats[j], pats[j+1], .. in this order from
\* position i on (other accesses may lie between them)
RECURSIVE ContainsFrom(_, _, _, _)
ContainsFrom(tr, pats, i, j) ==
    IF j > Len(pats) THEN TRUE
    ELSE IF i > Len(tr) THEN FALSE
    ELSE IF Matches(pats[j], tr[i]) THEN ContainsFrom(tr, pats, i + 1, j + 1)
    ELSE ContainsFrom(tr, pats, i + 1, j)

ContainsInOrder(tr, pats) == ContainsFrom(tr, pats, 1, 1)

\* the programming sequence of endpoint i: select, EPEN, ALLOC clear,
\* EPDIR/EPTYPE, EPBK/EPSIZE, ALLOC set, CFGOK, RXOUTE/RXSTPE
EndpointProgramming(i) ==
    <<Pattern(Writes, "UENUM", -1, {"bits"}, {<<"bits", i>>}),
      Pattern(Writes, "UECONX", i, {"epen"}, {<<"epen", 1>>}),
      Pattern(Writes, "UECFG1X", i, {"alloc"}, {<<"alloc", 0>>}),
      Pattern(Writes, "UECFG0X", i, {"epdir", "eptype"}, {}),
      Pattern(Writes, "UECFG1X", i, {"epbk", "epsize"},
              {<<"epbk", 0>>, <<"alloc", 0>>}),
      Pattern(Writes, "UECFG1X", i, {"alloc"}, {<<"alloc", 1>>}),
      Pattern({"read"}, "UESTA0X", i, {"cfgok"}, {<<"cfgok", 1>>}),
      Pattern(Writes, "UEIENX", i, {"rxoute", "rxstpe"},
              {<<"rxoute", 1>>, <<"rxstpe", 1>>})>>

\* the programming sequences of the allocated endpoints from index i on, in
\* ascending order
RECURSIVE ProgrammingFrom(_)
ProgrammingFrom(i) ==
    IF i >= 7 THEN << >>
    ELSE IF endpoints[i] # None
    THEN EndpointProgramming(i) \o ProgrammingFrom(i + 1)
    ELSE ProgrammingFrom(i + 1)

PllBringUp ==
    <<Pattern(Writes, "PLLCSR", -1, {"plle"}, {<<"plle", 1>>}),
      Pattern({"read"}, "PLLCSR", -1, {"plock"}, {<<"plock", 1>>})>>

UvregeSet == <<Pattern(Writes, "UHWCON", -1, {"uvrege"}, {<<"uvrege", 1>>})>>

FrzclkCleared ==
    <<Pattern(Writes, "USBCON", -1, {"frzclk"}, {<<"frzclk", 0>>})>>

EnableTail ==
    <<Pattern(Writes, "UDCON", -1, {"detach"}, {<<"detach", 0>>}),
      Pattern(Writes, "UDIEN", -1, {"eorste", "sofe"},
              {<<"eorste", 1>>, <<"sofe", 1>>})>>

\* enable has run to its end
EnableDone == op = "enable" /\ pc = "idle"

SetsUsbe(e) ==
    /\ e.kind \in Writes
    /\ e.reg = "USBCON"
    /\ "usbe" \in e.fields
    /\ e.val.usbe = 1

\* before position k the trace holds a write that sets PLLE and, after it, a
\* read of PLLCSR that found PLOCK set
PllObservedLockedBefore(tr, k) ==
    \E i, j \in 1 .. (k - 1) :
       /\ i < j
       /\ Matches(PllBringUp[1], tr[i])
       /\ Matches(PllBringUp[2], tr[j])

\* C8: in every execution of enable, USBE is written to 1 only after PLLE
\* has been set and PLOCK has been read as 1; in no reachable state is USBE
\* set while the PLL is not enabled and locked.
C8_UsbeOnlyAfterPllLocked ==
    /\ hw.USBCON.usbe = 1 => (hw.PLLCSR.plle = 1 /\ hw.PLLCSR.plock = 1)
    /\ op = "enable" =>
          \A k \in 1 .. Len(trace) :
             SetsUsbe(trace[k]) => PllObservedLockedBefore(trace, k)

\* C8 witness: enable was called with the PLL off, and has just set USBE
C8_Witness ==
    /\ op = "enable"
    /\ pc = "enable_frzclk"
    /\ trace[1].val.plle = 0
    /\ trace[1].val.plock = 0
    /\ SetsUsbe(trace[Len(trace)])
    /\ hw.USBCON.usbe = 1

\* the accesses that program an endpoint: the write of UENUM and every access
\* to a banked register
IsProgrammingAccess(e) ==
    \/ e.reg = "UENUM" /\ e.kind \in Writes
    \/ e.reg \in {"UECONX", "UECFG0X", "UECFG1X", "UESTA0X", "UEIENX"}

\* tr matches the patterns one for one, up to the length of tr
MatchesPrefix(tr, pats) ==
    /\ Len(tr) <= Len(pats)
    /\ \A k \in 1 .. Len(tr) :
          \/ Matches(pats[k], tr[k])
          \* the read of CFGOK that finds it clear ends the sequence
          \/ /\ k = Len(tr)
             /\ pc = "panic"
             /\ Matches([pats[k] EXCEPT !.val = {}], tr[k])

\* the programming accesses of the running pass are the sequences of
\* ProgrammingFrom(0), all of them once the operation has returned
ProgrammingInOrder(tr) ==
    LET prog == SelectSeq(tr, IsProgrammingAccess)
    IN  /\ MatchesPrefix(prog, ProgrammingFrom(0))
        /\ pc = "idle" => Len(prog) = Len(ProgrammingFrom(0))

\* the step writes EPDIR/EPTYPE or EPBK/EPSIZE of the selected endpoint
WritesConfiguration ==
    /\ Len(trace') = Len(trace) + 1
    /\ trace'[Len(trace')].kind = "write"
    /\ trace'[Len(trace')].reg \in {"UECFG0X", "UECFG1X"}

\* C9: during enable and during reset the allocated endpoints are programmed
\* in strictly ascending index, each by select, EPEN, ALLOC clear,
\* EPDIR/EPTYPE, EPBK=0/EPSIZE, ALLOC set, CFGOK check, RXOUTE/RXSTPE in this
\* order; ALLOC is 0 at every write of EPDIR/EPTYPE/EPSIZE and 1 only after.
C9_EndpointProgrammingOrder ==
    [][/\ op' \in {"enable", "reset"} => ProgrammingInOrder(trace)'
       /\ WritesConfiguration =>
            /\ hw.ep[trace'[Len(trace')].ep].UECFG1X.alloc = 0
            /\ hw'.ep[trace'[Len(trace')].ep].UECFG1X.alloc = 0]_vars

\* C9 witness: reset has reprogrammed all seven endpoints of a full table
C9_Witness ==
    /\ op = "reset"
    /\ pc = "idle"
    /\ active_endpoints = 0 .. 6
    /\ \A i \in 0 .. 6 : hw.ep[i].UECFG1X.alloc = 1

\* the writes of the trace that name ALLOC, as <<endpoint, bit>>
RECURSIVE AllocWrites(_)
AllocWrites(tr) ==
    IF tr = << >> THEN << >>
    ELSE LET e == Head(tr)
         IN  IF e.reg = "UECFG1X" /\ e.kind \in Writes /\ "alloc" \in e.fields
             THEN <<(<<e.ep, e.val.alloc>>)>> \o AllocWrites(Tail(tr))
             ELSE AllocWrites(Tail(tr))

\* ALLOC cleared then set, endpoint by endpoint, from index i on
RECURSIVE ClearThenSetFrom(_)
ClearThenSetFrom(i) ==
    IF i >= 7 THEN << >>
    ELSE IF endpoints[i] # None
    THEN <<(<<i, 0>>), (<<i, 1>>)>> \o ClearThenSetFrom(i + 1)
    ELSE ClearThenSetFrom(i + 1)

\* C10 as claimed: in a pass of reset no ALLOC=1 write for an endpoint
\* precedes the ALLOC=0 write of another allocated endpoint.
C10_ClearsAllBeforeSettingAny ==
    op = "reset" =>
        LET w == AllocWrites(trace)
        IN  \A j, k \in 1 .. Len(w) :
               ~(/\ j < k
                 /\ w[j][2] = 1
                 /\ w[k][2] = 0
                 /\ w[j][1] # w[k][1])

\* C10 amended: reset reprograms the allocated endpoints one at a time in
\* ascending order: each endpoint's ALLOC is cleared and set again before
\* the next endpoint is touched, so the ALLOC=1 write of an endpoint precedes
\* the ALLOC=0 write of every higher allocated endpoint.
C10_ClearsAndSetsEndpointByEndpoint ==
    op = "reset" =>
        LET w == AllocWrites(trace)
            all == ClearThenSetFrom(0)
        IN  /\ Len(w) <= Len(all)
            /\ w = SubSeq(all, 1, Len(w))
            /\ pc = "idle" => w = all

\* C10 witness: reset has returned on a device with at least two endpoints
C10_Witness ==
    /\ op = "reset"
    /\ pc = "idle"
    /\ Cardinality(active_endpoints) >= 2
    /\ Len(AllocWrites(trace)) >= 4

(***************************************************************************)
(* Properties of reset, write, read and poll                               *)
(***************************************************************************)
\* a step of the reset in progress made by the driver (the hardware leaves
\* pc alone)
IsResetStep == op' = "reset" /\ pc' # pc

\* what reset does after the loop: one write to UDINT that clears WAKEUPI
\* and SUSPI and no other flag, then SUSPE=1 and WAKEUPE=0 in UDIEN
ResetTail ==
    <<Pattern({"write"}, "UDINT", -1, {"wakeupi", "suspi"},
              {<<"wakeupi", 0>>, <<"suspi", 0>>, <<"eorsti", 1>>, <<"sofi", 1>>}),
      Pattern(Writes, "UDIEN", -1, {"wakeupe", "suspe"},
              {<<"wakeupe", 0>>, <<"suspe", 1>>})>>

\* C11: reset clears EORSTI (the flag is 0 once the write is made), runs the
\* programming sequence of every allocated endpoint in ascending order,
\* clears WAKEUPI and SUSPI (both are 0 once the write is made), and returns
\* with UDIEN.SUSPE=1 and UDIEN.WAKEUPE=0; no step of it changes the endpoint
\* table, the history of alloc_ep, pending_ins or the enabled state.
C11_ResetEffectAndFrame ==
    [][IsResetStep =>
          /\ (pc = "reset_eorsti") => (hw'.UDINT.eorsti = 0)
          /\ (pc = "reset_clear_udint") =>
                 (hw'.UDINT.wakeupi = 0 /\ hw'.UDINT.suspi = 0)
          /\ (pc' = "idle") =>
                 (/\ hw'.UDIEN.suspe = 1
                  /\ hw'.UDIEN.wakeupe = 0
                  /\ ContainsInOrder(trace',
                         <<Pattern(Writes, "UDINT", -1, {"eorsti"},
                                   {<<"eorsti", 0>>})>>
                         \o ProgrammingFrom(0) \o ResetTail))
          /\ endpoints' = endpoints
          /\ alloc_log' = alloc_log
          /\ pending_ins' = pending_ins
          /\ unreported' = unreported
          /\ enabled' = enabled]_vars

\* C11 witness: reset has returned on the device with two endpoints while a
\* write was in flight; SUSPI and WAKEUPI were set when it started and are
\* clear now
C11_Witness ==
    /\ op = "reset"
    /\ pc = "idle"
    /\ pending_ins # 0
    /\ Cardinality(active_endpoints) = 2
    /\ \E k \in 1 .. Len(trace) :
          /\ trace[k].reg = "UDINT"
          /\ trace[k].kind = "modify"
          /\ trace[k].val.suspi = 1
          /\ trace[k].val.wakeupi = 1
    /\ hw.UDINT.suspi = 0
    /\ hw.UDINT.wakeupi = 0
    /\ hw.UDINT.eorsti = 0

\* the accesses of tr to register reg that are of one of kinds
AccessesTo(tr, reg, kinds) ==
    SelectSeq(tr, LAMBDA e : e.reg = reg /\ e.kind \in kinds)

\* the bytes tr pushes to UEDATX, in order
Pushed(tr) ==
    LET w == AccessesTo(tr, "UEDATX", Writes)
    IN  [k \in 1 .. Len(w) |-> w[k].val.bits]

\* the bytes tr pulls from UEDATX, in order
Pulled(tr) ==
    LET r == AccessesTo(tr, "UEDATX", {"read"})
    IN  [k \in 1 .. Len(r) |-> r[k].val.bits]

\* the flags a write to UEINTX clears: the bits written 0, RWAL apart (it
\* is read-only and always written 0)
ClearedBy(e) == {f \in DOMAIN e.val : e.val[f] = 0} \ {"rwal"}

\* the position of the first access of tr to reg of one of kinds, 0 if none
First(tr, reg, kinds) ==
    LET S == {k \in 1 .. Len(tr) : tr[k].reg = reg /\ tr[k].kind \in kinds}
    IN  IF S = {} THEN 0 ELSE Lowest(S)

\* the position of the last one, 0 if none
Last(tr, reg, kinds) ==
    LET S == {k \in 1 .. Len(tr) : tr[k].reg = reg /\ tr[k].kind \in kinds}
    IN  IF S = {} THEN 0 ELSE CHOOSE k \in S : \A j \in S : j <= k

\* the step is a call of write or read that has selected the allocated
\* endpoint it names (the clock runs), of a control endpoint or not
IsTransfer(name, control) ==
    /\ op' = name
    /\ hw.USBCON.frzclk = 0
    /\ args'.ep_addr.index \in Slots
    /\ endpoints[args'.ep_addr.index] # None
    /\ (endpoints[args'.ep_addr.index].ep_type = "Control") = control

\* C12: a write that has selected a control endpoint i returns WouldBlock
\* if TXINI of i is clear; otherwise BufferOverflow if buf is longer than
\* the max_packet_size recorded for i; otherwise it pushes the bytes of buf
\* to UEDATX in order, then makes one write to UEINTX that clears TXINI and
\* nothing else, and returns Ok(buf.len()).  When it returns WouldBlock or
\* BufferOverflow it has pushed no byte, written nothing to UEINTX, and left
\* the endpoint's registers, its bank and pending_ins as they were.
C12_ControlWrite ==
    [][IsTransfer("write", TRUE) =>
          LET i      == args'.ep_addr.index
              buf    == args'.buf
              clears == AccessesTo(trace', "UEINTX", Writes)
          IN  /\ (hw.ep[i].UEINTX.txini = 0) => (ret' = Err("WouldBlock"))
              /\ (/\ hw.ep[i].UEINTX.txini = 1
                  /\ Len(buf) > endpoints[i].max_packet_size) =>
                     (ret' = Err("BufferOverflow"))
              /\ (/\ hw.ep[i].UEINTX.txini = 1
                  /\ Len(buf) <= endpoints[i].max_packet_size) =>
                     (/\ ret' = OkLen(Len(buf))
                      /\ Pushed(trace') = buf
                      /\ hw'.ep[i].fifo = buf
                      /\ Len(clears) = 1
                      /\ ClearedBy(clears[1]) = {"txini"}
                      /\ Last(trace', "UEDATX", Writes)
                            < First(trace', "UEINTX", Writes)
                      /\ hw'.ep[i].UEINTX.txini = 0)
              /\ (ret' \in {Err("WouldBlock"), Err("BufferOverflow")}) =>
                     (/\ Pushed(trace') = << >>
                      /\ clears = << >>
                      /\ hw'.ep[i] = hw.ep[i]
                      /\ pending_ins' = pending_ins)]_vars

\* C12 witness: a write of eight bytes to the control endpoint with banks of
\* eight bytes has returned Ok(8): the bank holds them and TXINI is clear
C12_Witness ==
    /\ op = "write"
    /\ args.ep_addr.index = 0
    /\ endpoints[0] # None
    /\ endpoints[0].ep_type = "Control"
    /\ args.buf = Packet(8)
    /\ ret = OkLen(8)
    /\ hw.ep[0].fifo = Packet(8)
    /\ hw.ep[0].UEINTX.txini = 0
    /\ Bit(pending_ins, 0) = 1

\* access k of tr is a read of UEINTX that looks at RWAL and finds it v
ReadsRwal(tr, k, v) ==
    /\ k \in 1 .. Len(tr)
    /\ tr[k].reg = "UEINTX"
    /\ tr[k].kind = "read"
    /\ "rwal" \in tr[k].fields
    /\ tr[k].val.rwal = v

\* C13: a write that has selected a non-control IN endpoint i returns
\* WouldBlock, having written no register of the endpoint, if TXINI of i is
\* clear.  Otherwise its first write to UEINTX clears TXINI and RXOUTI
\* (KILLBK) and nothing else, before any byte is pushed; every byte pushed
\* is the next byte of buf, pushed right after a read of RWAL that found it
\* set; if a read of RWAL finds it clear with bytes still to push, this is
\* the last access and write returns BufferOverflow without clearing
\* FIFOCON; otherwise the last access, after the last push, is a second
\* write to UEINTX that clears FIFOCON and RXOUTI and nothing else, and
\* write returns Ok(buf.len()).
C13_NonControlWrite ==
    [][IsTransfer("write", FALSE) =>
          LET i      == args'.ep_addr.index
              buf    == args'.buf
              tr     == trace'
              clears == AccessesTo(tr, "UEINTX", Writes)
              n      == Len(Pushed(tr))
          IN  /\ (hw.ep[i].UEINTX.txini = 0) =>
                     (/\ ret' = Err("WouldBlock")
                      /\ clears = << >>
                      /\ n = 0
                      /\ hw'.ep[i] = hw.ep[i])
              /\ (hw.ep[i].UEINTX.txini = 1) =>
                     (/\ Len(clears) >= 1
                      /\ ClearedBy(clears[1]) = {"txini", "rxouti"}
                      /\ (n > 0) => (First(tr, "UEINTX", Writes)
                                       < First(tr, "UEDATX", Writes))
                      /\ \A k \in 1 .. Len(tr) :
                            (tr[k].reg = "UEDATX") => ReadsRwal(tr, k - 1, 1)
                      /\ n <= Len(buf)
                      /\ Pushed(tr) = SubSeq(buf, 1, n)
                      /\ IF n < Len(buf)
                         THEN /\ ReadsRwal(tr, Len(tr), 0)
                              /\ ret' = Err("BufferOverflow")
                              /\ Len(clears) = 1
                              /\ hw'.ep[i].UEINTX.fifocon = 1
                              /\ n = BankSize(hw, i)
                         ELSE /\ ret' = OkLen(Len(buf))
                              /\ Len(clears) = 2
                              /\ ClearedBy(clears[2]) = {"fifocon", "rxouti"}
                              /\ tr[Len(tr)] = clears[2]
                              /\ hw'.ep[i].UEINTX.fifocon = 0
                              /\ hw'.ep[i].fifo = buf)]_vars

\* C13 witness: a write of nine bytes to the interrupt IN endpoint with a
\* bank of eight has returned BufferOverflow after eight pushes: TXINI is
\* clear and FIFOCON still set
C13_Witness ==
    /\ op = "write"
    /\ args.ep_addr.index = 1
    /\ endpoints[1] # None
    /\ endpoints[1].ep_type = "Interrupt"
    /\ args.buf = Packet(9)
    /\ ret = Err("BufferOverflow")
    /\ Pushed(trace) = Packet(8)
    /\ hw.ep[1].UEINTX.txini = 0
    /\ hw.ep[1].UEINTX.fifocon = 1

\* the endpoints whose UEINTX the call with accesses tr has read and found
\* TXINI set
SeenReadyForIn(tr) ==
    {i \in Slots : \E k \in 1 .. Len(tr) :
                      /\ tr[k].reg = "UEINTX"
                      /\ tr[k].kind = "read"
                      /\ tr[k].ep = i
                      /\ tr[k].val.txini = 1}

\* the endpoints a PollResult reports in ep_in_complete
ReportedComplete(r) ==
    IF r.kind = "Data" THEN {i \in Slots : Bit(r.ep_in_complete, i) = 1}
    ELSE {}

\* C14: a poll reports in ep_in_complete exactly the endpoints it has
\* scanned with TXINI set that have a successful write no poll has reported
\* yet (unreported): the first poll that scans endpoint i with TXINI set
\* after a successful write to i reports bit i, and, the report taking i
\* out of unreported, no later poll reports it before another write to i
\* succeeds.  pending_ins holds exactly the bits of unreported.
C14_InCompleteOncePerWrite ==
    [][/\ (op' = "poll") =>
             (/\ ReportedComplete(ret') = SeenReadyForIn(trace') \cap unreported
              /\ unreported' = unreported \ ReportedComplete(ret'))
       /\ (op' = "write") =>
             (unreported' = IF ret'.ok
                            THEN unreported \cup {args'.ep_addr.index}
                            ELSE unreported)
       /\ (op' \notin {"poll", "write"}) => (unreported' = unreported)
       /\ \A i \in Slots : (Bit(pending_ins', i) = 1) <=> (i \in unreported')
      ]_vars

\* C14 witness: a poll has just reported the completed IN of endpoint 1,
\* the write to endpoint 0 staying unreported
C14_Witness ==
    /\ op = "poll"
    /\ ret.kind = "Data"
    /\ ReportedComplete(ret) = {1}
    /\ unreported = {0}
    /\ pending_ins = 1

\* the count endpoint_byte_count works out of the UEBCHX and UEBCLX values
\* the accesses tr have read: (UEBCHX << 8) | UEBCLX, -1 if tr has not read
\* each of them once
ByteCountRead(tr) ==
    LET h == AccessesTo(tr, "UEBCHX", {"read"})
        l == AccessesTo(tr, "UEBCLX", {"read"})
    IN  IF Len(h) = 1 /\ Len(l) = 1
        THEN (h[1].val.bits * 256) + l[1].val.bits
        ELSE -1

\* C15: a read that has selected a control endpoint i returns WouldBlock if
\* RXOUTI and RXSTPI of i are both clear; otherwise its count is
\* (UEBCHX << 8) | UEBCLX, the number of bytes in the bank; if the count
\* exceeds buf.len() it returns BufferOverflow, having read no byte from
\* UEDATX, written nothing to UEINTX and left buf and the endpoint as they
\* were; otherwise it reads exactly count bytes from UEDATX, stores them in
\* order in buf[0..count] (the rest of buf untouched), then makes one write
\* to UEINTX that clears RXOUTI and RXSTPI and nothing else, and returns
\* Ok(count).
C15_ControlRead ==
    [][IsTransfer("read", TRUE) =>
          LET i      == args'.ep_addr.index
              buf    == args'.buf
              filled == args'.filled
              tr     == trace'
              clears == AccessesTo(tr, "UEINTX", Writes)
              count  == Len(hw.ep[i].fifo)
          IN  IF hw.ep[i].UEINTX.rxouti = 0 /\ hw.ep[i].UEINTX.rxstpi = 0
              THEN ret' = Err("WouldBlock")
              ELSE /\ ByteCountRead(tr) = count
                   /\ IF count > Len(buf)
                      THEN /\ ret' = Err("BufferOverflow")
                           /\ Pulled(tr) = << >>
                           /\ clears = << >>
                           /\ filled = buf
                           /\ hw'.ep[i] = hw.ep[i]
                      ELSE /\ ret' = OkLen(count)
                           /\ Pulled(tr) = hw.ep[i].fifo
                           /\ filled = Stored(buf, hw.ep[i].fifo)
                           /\ Len(clears) = 1
                           /\ ClearedBy(clears[1]) = {"rxouti", "rxstpi"}
                           /\ Last(tr, "UEDATX", {"read"})
                                 < First(tr, "UEINTX", Writes)
                           /\ hw'.ep[i].UEINTX.rxouti = 0
                           /\ hw'.ep[i].UEINTX.rxstpi = 0]_vars

\* C15 witness: a read of the control endpoint into a buffer of eight bytes
\* has returned Ok(8) with the eight bytes of the SETUP packet, RXOUTI and
\* RXSTPI clear
C15_Witness ==
    /\ op = "read"
    /\ args.ep_addr.index = 0
    /\ endpoints[0] # None
    /\ endpoints[0].ep_type = "Control"
    /\ args.buf = Buffer(8)
    /\ ret = OkLen(8)
    /\ args.filled = SetupPacket
    /\ Pulled(trace) = SetupPacket
    /\ hw.ep[0].UEINTX.rxouti = 0
    /\ hw.ep[0].UEINTX.rxstpi = 0

\* the smaller of two numbers
Min(a, b) == IF a < b THEN a ELSE b

\* C16: a read that has selected a non-control endpoint i returns
\* WouldBlock if RXOUTI of i is clear.  Otherwise it pulls bytes from
\* UEDATX, each right after a read of RWAL that found it set, until the
\* bank is empty or buf is full: the bytes pulled are the first
\* min(packet length, buf.len()) bytes of the packet, stored in order in
\* buf.  If the packet is longer than buf (RWAL still set after the loop)
\* it returns BufferOverflow and no write to UEINTX clears FIFOCON;
\* otherwise its last access is a write to UEINTX that clears FIFOCON and
\* it returns Ok(packet length): a packet of exactly buf.len() bytes
\* succeeds.
C16_NonControlRead ==
    [][IsTransfer("read", FALSE) =>
          LET i      == args'.ep_addr.index
              buf    == args'.buf
              filled == args'.filled
              tr     == trace'
              clears == AccessesTo(tr, "UEINTX", Writes)
              packet == hw.ep[i].fifo
              n      == Min(Len(packet), Len(buf))
          IN  IF hw.ep[i].UEINTX.rxouti = 0
              THEN ret' = Err("WouldBlock")
              ELSE /\ \A k \in 1 .. Len(tr) :
                         (tr[k].reg = "UEDATX") => ReadsRwal(tr, k - 1, 1)
                   /\ Pulled(tr) = SubSeq(packet, 1, n)
                   /\ filled = Stored(buf, Pulled(tr))
                   /\ IF Len(packet) > Len(buf)
                      THEN /\ ReadsRwal(tr, Len(tr), 1)
                           /\ ret' = Err("BufferOverflow")
                           /\ \A k \in 1 .. Len(clears) :
                                 "fifocon" \notin ClearedBy(clears[k])
                           /\ hw'.ep[i].UEINTX.fifocon = 1
                      ELSE /\ ret' = OkLen(Len(packet))
                           /\ tr[Len(tr)].reg = "UEINTX"
                           /\ tr[Len(tr)].kind \in Writes
                           /\ "fifocon" \in ClearedBy(tr[Len(tr)])
                           /\ ReadsRwal(tr, Len(tr) - 1, 0)
                           /\ hw'.ep[i].UEINTX.fifocon = 0]_vars

\* C16 witness: a read of the bulk OUT endpoint into a buffer of eight bytes
\* has returned Ok(8) with the eight bytes of the packet, and FIFOCON is
\* clear
C16_Witness ==
    /\ op = "read"
    /\ args.ep_addr.index = 3
    /\ endpoints[3] # None
    /\ endpoints[3].ep_type = "Bulk"
    /\ args.buf = Buffer(8)
    /\ ret = OkLen(8)
    /\ args.filled = Packet(8)
    /\ hw.ep[3].UEINTX.fifocon = 0

\* the step is a read of a non-control endpoint that returns Ok
IsNonControlReadOk == IsTransfer("read", FALSE) /\ ret'.ok

\* C17 as claimed: a successful read of a non-control endpoint makes no
\* write to UEINTX that clears a flag other than FIFOCON, and FIFOCON is
\* cleared only after every byte has been read.
C17_ClearsOnlyFifocon ==
    [][IsNonControlReadOk =>
          LET tr     == trace'
              clears == AccessesTo(tr, "UEINTX", Writes)
          IN  /\ \A k \in 1 .. Len(clears) :
                    ClearedBy(clears[k]) \subseteq {"fifocon"}
              /\ \A k \in 1 .. Len(tr) :
                    (/\ tr[k].reg = "UEINTX"
                     /\ tr[k].kind \in Writes
                     /\ "fifocon" \in ClearedBy(tr[k])) =>
                       (k > Last(tr, "UEDATX", {"read"}))]_vars

\* C17 amended: a successful read of a non-control endpoint makes exactly
\* two writes to UEINTX: the first, before any byte is read, clears RXOUTI
\* and nothing else; the second, after every byte of the packet has been
\* read, clears FIFOCON and nothing else.  RXOUTI and FIFOCON are both
\* clear when it returns and no other flag of UEINTX has changed.
C17_ClearsRxoutiThenFifocon ==
    [][IsNonControlReadOk =>
          LET i      == args'.ep_addr.index
              tr     == trace'
              clears == AccessesTo(tr, "UEINTX", Writes)
          IN  /\ Len(clears) = 2
              /\ ClearedBy(clears[1]) = {"rxouti"}
              /\ ClearedBy(clears[2]) = {"fifocon"}
              /\ Pulled(tr) = hw.ep[i].fifo
              /\ (Pulled(tr) # << >>) =>
                    (First(tr, "UEINTX", Writes)
                       < First(tr, "UEDATX", {"read"}))
              /\ Last(tr, "UEINTX", Writes) > Last(tr, "UEDATX", {"read"})
              /\ hw'.ep[i].UEINTX =
                    [hw.ep[i].UEINTX EXCEPT !.rxouti = 0, !.fifocon = 0]]_vars

\* C17 witness: a read of the bulk OUT endpoint has returned Ok(8); its
\* first write to UEINTX cleared RXOUTI, before the first byte was read
C17_Witness ==
    /\ op = "read"
    /\ args.ep_addr.index = 3
    /\ endpoints[3] # None
    /\ endpoints[3].ep_type # "Control"
    /\ ret = OkLen(8)
    /\ Len(Pulled(trace)) = 8
    /\ Len(AccessesTo(trace, "UEINTX", Writes)) = 2
    /\ ClearedBy(AccessesTo(trace, "UEINTX", Writes)[1]) = {"rxouti"}
    /\ First(trace, "UEINTX", Writes) < First(trace, "UEDATX", {"read"})

\* the bus-level event poll is to return from the registers it finds, in
\* the order of priority: VBUSTI; SUSPI with SUSPE; WAKEUPI with WAKEUPE;
\* EORSTI; "" when none of them holds
BusLevelEvent(h) ==
    IF h.USBINT.vbusti = 1
    THEN (IF h.USBSTA.vbus = 1 THEN "Resume" ELSE "Suspend")
    ELSE IF h.UDINT.suspi = 1 /\ h.UDIEN.suspe = 1 THEN "Suspend"
    ELSE IF h.UDINT.wakeupi = 1 /\ h.UDIEN.wakeupe = 1 THEN "Resume"
    ELSE IF h.UDINT.eorsti = 1 THEN "Reset"
    ELSE ""

\* an endpoint has an event for poll: RXOUTI, RXSTPI, or TXINI with its bit
\* of pending set
HasEndpointEvent(h, pending) ==
    \E i \in active_endpoints :
       \/ h.ep[i].UEINTX.rxouti = 1
       \/ h.ep[i].UEINTX.rxstpi = 1
       \/ (h.ep[i].UEINTX.txini = 1 /\ Bit(pending, i) = 1)

\* C18: poll returns the first bus-level event that holds, in the order
\* VBUSTI (Resume if VBUS is asserted, else Suspend), SUSPI with SUSPE
\* (Suspend), WAKEUPI with WAKEUPE (Resume), EORSTI (Reset), whatever the
\* endpoints hold: it has then selected no endpoint, read no UEINTX and left
\* pending_ins alone.  Only when none holds does it return Data or None.
C18_PollPriority ==
    [][(op' = "poll") =>
          IF BusLevelEvent(hw) # ""
          THEN /\ ret'.kind = BusLevelEvent(hw)
               /\ AccessesTo(trace', "UENUM", Writes) = << >>
               /\ AccessesTo(trace', "UEINTX", {"read"}) = << >>
               /\ pending_ins' = pending_ins
          ELSE ret'.kind \in {"Data", "None"}]_vars

\* C18 witness: poll has returned Reset (EORSTI set, VBUSTI clear, WAKEUPE
\* disabled) while SUSPI is set with SUSPE disabled, the control endpoint
\* holds a SETUP packet, and the IN of endpoint 1 is complete and unreported
C18_Witness ==
    /\ op = "poll"
    /\ ret = PollReset
    /\ hw.UDINT.eorsti = 1
    /\ hw.USBINT.vbusti = 0
    /\ hw.UDINT.suspi = 1
    /\ hw.UDIEN.suspe = 0
    /\ hw.USBCON.frzclk = 0
    /\ hw.ep[0].UEINTX.rxstpi = 1
    /\ hw.ep[1].UEINTX.txini = 1
    /\ Bit(pending_ins, 1) = 1

\* bit i of a mask of poll, worked out of the registers: flag f of an
\* allocated endpoint, 0 for a slot that is not allocated
FlagBit(h, i, f) == IF i \in active_endpoints THEN h.ep[i].UEINTX[f] ELSE 0

\* C19: a poll that finds no bus-level event returns Data iff FRZCLK is
\* clear and some allocated endpoint has RXOUTI, RXSTPI, or TXINI with its
\* bit of pending_ins set, and None otherwise.  In Data, for every i, bit
\* i of ep_out is RXOUTI(i), bit i of ep_setup is RXSTPI(i) and bit i of
\* ep_in_complete is pending_ins bit i AND TXINI(i) for an allocated
\* endpoint, and 0 for a slot that is not allocated; no mask has a bit past
\* bit 7.  A poll made while FRZCLK is set, whatever it finds, does not
\* return Data, does not write UENUM and leaves pending_ins alone.
C19_PollData ==
    [][(op' = "poll") =>
          /\ (BusLevelEvent(hw) = "") =>
                 (/\ (ret'.kind = "Data") <=>
                        (/\ hw.USBCON.frzclk = 0
                         /\ HasEndpointEvent(hw, pending_ins))
                  /\ (ret'.kind # "Data") => (ret' = PollNone)
                  /\ (ret'.kind = "Data") =>
                        (/\ ret'.ep_out \in 0 .. 255
                         /\ ret'.ep_setup \in 0 .. 255
                         /\ ret'.ep_in_complete \in 0 .. 255
                         /\ \A i \in 0 .. 7 :
                               /\ Bit(ret'.ep_out, i) = FlagBit(hw, i, "rxouti")
                               /\ Bit(ret'.ep_setup, i)
                                     = FlagBit(hw, i, "rxstpi")
                               /\ Bit(ret'.ep_in_complete, i)
                                     = Bit(pending_ins, i)
                                         * FlagBit(hw, i, "txini")))
          /\ (hw.USBCON.frzclk = 1) =>
                 (/\ ret'.kind # "Data"
                  /\ AccessesTo(trace', "UENUM", Writes) = << >>
                  /\ pending_ins' = pending_ins)]_vars

\* C19 witness: poll has returned Data with the SETUP packet of endpoint 0
\* in ep_setup and the completed IN of endpoint 1 in ep_in_complete, while
\* the write to endpoint 0 is still in flight
C19_Witness ==
    /\ op = "poll"
    /\ ret = PollData(0, 2, 1)
    /\ hw.USBCON.frzclk = 0
    /\ pending_ins = 1
    /\ hw.ep[0].UEINTX.txini = 0
    /\ hw.ep[0].UEINTX.rxstpi = 1
    /\ hw.ep[1].UEINTX.txini = 1

\* C20 as claimed: every poll that finds SOFI set returns with SOFI clear,
\* whatever it returns, and every poll that finds VBUSTI set returns with
\* VBUSTI clear.
C20_AlwaysClearsSofi ==
    [][(op' = "poll") =>
          /\ (hw.UDINT.sofi = 1) => (hw'.UDINT.sofi = 0)
          /\ (hw.USBINT.vbusti = 1) => (hw'.USBINT.vbusti = 0)]_vars

\* C20 amended: every poll that finds VBUSTI set clears it, with one write
\* to USBINT, and returns with VBUSTI clear.  A poll that finds SOFI set
\* clears it, with one write to UDINT that clears no other flag, exactly
\* when it finds no bus-level event (it returns Data or None); a poll that
\* returns Suspend, Resume or Reset writes nothing to UDINT and returns
\* with SOFI as it found it.
C20_ClearsSofiUnlessBusEvent ==
    [][(op' = "poll") =>
          LET udint_writes == AccessesTo(trace', "UDINT", Writes)
          IN  /\ (hw.USBINT.vbusti = 1) =>
                     (/\ hw'.USBINT.vbusti = 0
                      /\ Len(AccessesTo(trace', "USBINT", Writes)) = 1)
              /\ (hw.UDINT.sofi = 1 /\ BusLevelEvent(hw) = "") =>
                     (/\ hw'.UDINT = [hw.UDINT EXCEPT !.sofi = 0]
                      /\ Len(udint_writes) = 1
                      /\ {f \in DOMAIN udint_writes[1].val :
                             udint_writes[1].val[f] = 0} = {"sofi"})
              /\ (hw.UDINT.sofi = 0 \/ BusLevelEvent(hw) # "") =>
                     (/\ hw'.UDINT = hw.UDINT
                      /\ udint_writes = << >>)]_vars

\* C20 witness: a poll that read SOFI set together with EORSTI has returned
\* Reset, and SOFI is still set
C20_Witness ==
    /\ op = "poll"
    /\ ret = PollReset
    /\ \E k \in 1 .. Len(trace) :
          /\ trace[k].reg = "UDINT"
          /\ trace[k].kind = "read"
          /\ trace[k].val.sofi = 1
          /\ trace[k].val.eorsti = 1
    /\ hw.UDINT.sofi = 1

\* the step is an is_stalled that directly follows a set_stalled of the same
\* address, of index 0..6
AsksAfterSetting ==
    /\ op = "set_stalled"
    /\ op' = "is_stalled"
    /\ args'.ep_addr = args.ep_addr
    /\ args.ep_addr.index \in Slots

\* C21 as stated: for every endpoint address of index 0..6, in every state of
\* the driver, is_stalled after set_stalled(addr, stalled) returns stalled.
C21_RoundTripInEveryState ==
    [][AsksAfterSetting => (ret'.stalled = args.stalled)]_vars

\* C21 amended: while the clock runs (FRZCLK clear), set_stalled on an address
\* of index 0..6 is one modify of UECONX that writes STALLRQ = stalled and
\* STALLRQC = !stalled, and an is_stalled that follows returns stalled; while
\* the clock is frozen set_stalled writes no register and is_stalled returns
\* false.
C21_RoundTripWhileClockRuns ==
    [][/\ (op' = "set_stalled" /\ args'.ep_addr.index \in Slots) =>
             LET w == AccessesTo(trace', "UECONX", Writes)
                 b == IF args'.stalled THEN 1 ELSE 0
             IN  IF hw.USBCON.frzclk = 0
                 THEN /\ Len(w) = 1
                      /\ w[1].kind = "modify"
                      /\ w[1].ep = args'.ep_addr.index
                      /\ w[1].fields = {"stallrq", "stallrqc"}
                      /\ w[1].val.stallrq = b
                      /\ w[1].val.stallrqc = 1 - b
                      /\ hw'.ep[args'.ep_addr.index].UECONX.stallrq = b
                 ELSE /\ SelectSeq(trace', LAMBDA e : e.kind \in Writes) = << >>
                      /\ hw' = hw
       /\ AsksAfterSetting =>
             IF hw.USBCON.frzclk = 0
             THEN ret'.stalled = args.stalled
             ELSE ret'.stalled = FALSE]_vars

\* C21 witness: is_stalled has returned true for endpoint 3, whose stall
\* request a set_stalled made while the clock ran
C21_Witness ==
    /\ op = "is_stalled"
    /\ args.ep_addr.index = 3
    /\ ret.stalled
    /\ hw.USBCON.frzclk = 0
    /\ hw.ep[3].UECONX.stallrq = 1

\* C22: from the state enable and reset leave (FRZCLK = 0, SUSPE = 1,
\* WAKEUPE = 0) suspend leaves FRZCLK = 1, SUSPE = 0, WAKEUPE = 1 with SUSPI
\* and WAKEUPI cleared; from that state resume leaves FRZCLK = 0, SUSPE = 1,
\* WAKEUPE = 0 with WAKEUPI and SUSPI cleared; neither changes the endpoint
\* table or pending_ins.
C22_SuspendResume ==
    [][/\ (/\ op' = "suspend"
           /\ hw.USBCON.frzclk = 0
           /\ hw.UDIEN.suspe = 1
           /\ hw.UDIEN.wakeupe = 0) =>
             (/\ hw'.USBCON.frzclk = 1
              /\ hw'.UDIEN.suspe = 0
              /\ hw'.UDIEN.wakeupe = 1
              /\ hw'.UDINT.suspi = 0
              /\ hw'.UDINT.wakeupi = 0
              /\ endpoints' = endpoints
              /\ pending_ins' = pending_ins)
       /\ (/\ op' = "resume"
           /\ hw.USBCON.frzclk = 1
           /\ hw.UDIEN.suspe = 0
           /\ hw.UDIEN.wakeupe = 1) =>
             (/\ hw'.USBCON.frzclk = 0
              /\ hw'.UDIEN.suspe = 1
              /\ hw'.UDIEN.wakeupe = 0
              /\ hw'.UDINT.wakeupi = 0
              /\ hw'.UDINT.suspi = 0
              /\ endpoints' = endpoints
              /\ pending_ins' = pending_ins)]_vars

\* C22 witness: resume has returned, which only a suspended device lets it
\* do, with the clock running, the suspend interrupt enabled and the wakeup
\* interrupt disabled again, on a device with an IN still pending
C22_Witness ==
    /\ op = "resume"
    /\ hw.USBCON.frzclk = 0
    /\ hw.UDIEN.suspe = 1
    /\ hw.UDIEN.wakeupe = 0
    /\ hw.UDINT.suspi = 0
    /\ hw.UDINT.wakeupi = 0
    /\ pending_ins # 0

\* C23 as stated: set_device_address(addr) makes exactly two writes to
\* UDADDR, the first with UADD = addr and ADDEN = 0, the second with
\* UADD = addr and ADDEN = 1, whatever UDADDR held before.
C23_UaddWrittenWithAddenClear ==
    [][(op' = "set_device_address") =>
          LET w == AccessesTo(trace', "UDADDR", Writes)
          IN  /\ Len(w) = 2
              /\ w[1].val = [uadd |-> args'.addr, adden |-> 0]
              /\ w[2].val = [uadd |-> args'.addr, adden |-> 1]
              /\ hw'.UDADDR = [uadd |-> args'.addr, adden |-> 1]]_vars

\* C23, the failing call: set_device_address has returned after a first
\* write that changed UADD while carrying ADDEN = 1, left by an earlier call
C23_Witness ==
    /\ op = "set_device_address"
    /\ Len(trace) = 2
    /\ trace[1].reg = "UDADDR"
    /\ trace[1].val.uadd = args.addr
    /\ trace[1].val.adden = 1

\* the step is a call of read or write that names a slot never allocated
NamesUnallocated ==
    /\ op' \in {"read", "write"}
    /\ (args'.ep_addr.index \in Slots => endpoints[args'.ep_addr.index] = None)

\* the writes of tr to the flags or the data of an endpoint
TransferWrites(tr) ==
    SelectSeq(tr, LAMBDA e : e.reg \in {"UEINTX", "UEDATX"} /\ e.kind \in Writes)

\* C24 as stated: read and write of a slot never allocated return
\* InvalidEndpoint in every state, clock running or frozen, for every index,
\* and write nothing to UEINTX or UEDATX.
C24_InvalidEndpointInEveryState ==
    [][NamesUnallocated =>
          (/\ ret' = Err("InvalidEndpoint")
           /\ TransferWrites(trace') = << >>)]_vars

\* C24 amended: write of a slot never allocated returns InvalidEndpoint in
\* every state and for every index, without any register access; read of
\* such a slot returns InvalidEndpoint when the index is 7 or more or the
\* clock runs, and InvalidState when the index is below 7 and the clock is
\* frozen; neither writes to UEINTX or UEDATX, and read leaves the buffer.
C24_InvalidEndpointUnlessReadFrozen ==
    [][NamesUnallocated =>
          (/\ TransferWrites(trace') = << >>
           /\ (op' = "write") =>
                 (/\ ret' = Err("InvalidEndpoint")
                  /\ trace' = << >>
                  /\ hw' = hw)
           /\ (op' = "read") =>
                 (/\ ret' = IF args'.ep_addr.index \in Slots
                               /\ hw.USBCON.frzclk = 1
                            THEN Err("InvalidState")
                            ELSE Err("InvalidEndpoint")
                  /\ args'.filled = args'.buf))]_vars

\* C24 witness: while the clock is frozen, read of slot 2, never allocated,
\* has returned InvalidState
C24_Witness ==
    /\ op = "read"
    /\ args.ep_addr.index = 2
    /\ endpoints[2] = None
    /\ hw.USBCON.frzclk = 1
    /\ ret = Err("InvalidState")

\* C25 as stated: every operation other than alloc_ep runs inside one
\* critical section, force_reset included, so when a call of the main
\* program returns none of the accesses between its first and its last was
\* made by a call of an interrupt handler.
C25_NoHandlerCallInsideACall ==
    [][(pc # "idle" /\ pc' = "idle") =>
          (\A k \in 1 .. Len(trace') : "handler" \notin DOMAIN trace'[k])]_vars

\* C25, the failing call: force_reset has returned, and between its modify
\* that set DETACH and its modify that cleared it lies a write of a poll
\* called by an interrupt handler
C25_Witness ==
    /\ op = "force_reset"
    /\ pc = "idle"
    /\ Len(trace) > 2
    /\ trace[1].reg = "UDCON" /\ trace[1].val.detach = 1
    /\ trace[Len(trace)].reg = "UDCON" /\ trace[Len(trace)].val.detach = 0
    /\ \E k \in 2 .. Len(trace) - 1 :
          /\ "handler" \in DOMAIN trace[k]
          /\ trace[k].kind \in Writes

\* C26 as stated: a call of read or write that returns an error has written
\* nothing to UEINTX, pushed no byte to UEDATX and pulled none from it, and
\* leaves the registers and the bank of every endpoint as they were.
C26_ErrorsLeaveTheBank ==
    [][(op' \in {"read", "write"} /\ ~ret'.ok) =>
          (/\ AccessesTo(trace', "UEINTX", Writes) = << >>
           /\ AccessesTo(trace', "UEDATX", Writes \cup {"read"}) = << >>
           /\ hw'.ep = hw.ep)]_vars

\* C26, the failing call: write on a non-control IN endpoint has returned
\* BufferOverflow after it cleared TXINI and pushed bytes; the bank is still
\* held by the firmware (FIFOCON set) with TXINI clear, so a retry of the
\* same write finds TXINI clear
C26_Witness ==
    /\ op = "write"
    /\ ret = Err("BufferOverflow")
    /\ args.ep_addr.index \in Slots
    /\ endpoints[args.ep_addr.index] # None
    /\ endpoints[args.ep_addr.index].ep_type # "Control"
    /\ AccessesTo(trace, "UEINTX", Writes) # << >>
    /\ Pushed(trace) # << >>
    /\ hw.ep[args.ep_addr.index].UEINTX.txini = 0
    /\ hw.ep[args.ep_addr.index].UEINTX.fifocon = 1
    /\ write(args.ep_addr, args.buf).ret = Err("WouldBlock")

Lowered(old, new) == {f \in DOMAIN old : old[f] = 1 /\ new[f] = 0}

\* the flags the writes of tr to the unbanked register reg name
Targeted(tr, reg) ==
    UNION {tr[k].fields : k \in {j \in 1 .. Len(tr) :
                                    tr[j].reg = reg /\ tr[j].kind \in Writes}}

\* the step is made by the driver: it adds accesses to the record of a call
IsDriverStep == op' # "event" /\ trace' # trace /\ trace' # << >>

\* C28 as stated: with the controller raising flags between any two accesses
\* of the driver, every write of the driver to UDINT or USBINT is a plain
\* write of the preserve mask with the targeted flags zeroed, never a
\* read-modify-write, the EORSTI clear of reset included, and no step of the
\* driver lowers a flag of UDINT or USBINT that its call does not target.
C28_ClearsOnlyIntendedFlags ==
    [][IsDriverStep =>
          (/\ \A k \in 1 .. Len(trace') :
                 (trace'[k].reg \in {"UDINT", "USBINT"}
                  /\ trace'[k].kind \in Writes) =>
                     (/\ trace'[k].kind = "write"
                      /\ trace'[k].val =
                            Merge(IF trace'[k].reg = "UDINT"
                                  THEN UDINT_preserve ELSE USBINT_preserve,
                                  [f \in trace'[k].fields |-> 0]))
           /\ Lowered(hw.UDINT, hw'.UDINT) \subseteq Targeted(trace', "UDINT")
           /\ Lowered(hw.USBINT, hw'.USBINT)
                 \subseteq Targeted(trace', "USBINT"))]_vars

\* C28, the failing run: reset has read UDINT with SOFI clear, the
\* controller has raised SOFI since, and reset is about to write the value
\* it read, SOFI = 0, back with EORSTI cleared
C28_Witness ==
    /\ op = "reset"
    /\ pc = "reset_eorsti"
    /\ trace[Len(trace)].reg = "UDINT"
    /\ trace[Len(trace)].kind = "read"
    /\ trace[Len(trace)].val.sofi = 0
    /\ hw.UDINT.sofi = 1
    /\ ENABLED ResetEorsti

\* the byte an access to a flag register writes: clear_interrupts writes its
\* mask with the named flags cleared, a modify writes back the flags it read
\* with every reserved bit, which reads 0, as 0
WrittenByte(e, bit) ==
    IF e.kind = "write"
    THEN IF e.reg = "UDINT" THEN UDINT_clear_interrupts(e.fields)
         ELSE IF e.reg = "UEINTX" THEN UEINTX_clear_interrupts(e.fields)
         ELSE USBINT_clear_interrupts(e.fields)
    ELSE ToBits(e.val, bit)

\* the byte is the one access e records, and its bits of zero are 0
WritesZeroTo(e, bit, zero) ==
    LET byte == WrittenByte(e, bit)
    IN  /\ FromBits(byte, bit) = e.val
        /\ \A i \in zero : Bit(byte, i) = 0

\* C29: every write of the driver to UDINT has bits 1 and 7 at 0, every write
\* to UEINTX has bit 5 at 0 and every write to USBINT has bits 7..1 at 0;
\* the masks clear_interrupts starts from are 0x7D, 0xDF and 0x01.
C29_ReservedBitsWrittenZero ==
    /\ UDINT_clear_interrupts({}) = 125
    /\ UEINTX_clear_interrupts({}) = 223
    /\ USBINT_clear_interrupts({}) = 1
    /\ \A k \in 1 .. Len(trace) :
          LET e == trace[k]
          IN  (e.kind \in Writes) =>
                 (/\ (e.reg = "UDINT") => WritesZeroTo(e, UDINT_bit, {1, 7})
                  /\ (e.reg = "UEINTX") => WritesZeroTo(e, UEINTX_bit, {5})
                  /\ (e.reg = "USBINT") => WritesZeroTo(e, USBINT_bit, 1 .. 7))

\* C29 witness: reset has returned after its modify of UDINT wrote 0x04
\* (SOFI as read, EORSTI cleared) and its clear_interrupts wrote 0x6C, the
\* mask 0x7D with SUSPI and WAKEUPI cleared
C29_Witness ==
    /\ op = "reset"
    /\ pc = "idle"
    /\ \E k \in 1 .. Len(trace) :
          /\ trace[k].reg = "UDINT"
          /\ trace[k].kind = "modify"
          /\ WrittenByte(trace[k], UDINT_bit) = 4
    /\ \E k \in 1 .. Len(trace) :
          /\ trace[k].reg = "UDINT"
          /\ trace[k].kind = "write"
          /\ WrittenByte(trace[k], UDINT_bit) = 108

\* the bank sizes EPSIZE can encode
BankSizes == {8, 16, 32, 64, 128, 256, 512}

\* max(8, next_power_of_two(n)): the least power of two that is both at
\* least 8 and at least n
LeastBank(n) ==
    LET powers == {2 ^ k : k \in 3 .. 16}
    IN  CHOOSE p \in powers : p >= n /\ \A q \in powers : q >= n => p <= q

\* C30: for every allocated slot of a table alloc_ep has filled (sizes from 0
\* on), p = max(8, next_power_of_two(max_packet_size)) is one of 8 .. 512 and
\* does not exceed the capacity of the slot; the write of UECFG1X that
\* configure_endpoint makes programs EPSIZE = log2(p) - 3, that is
\* 8 << EPSIZE = p, and never reaches the unreachable arm.
C30_EpsizeEncodesLeastBank ==
    [][/\ \A i \in active_endpoints :
             /\ LeastBank(endpoints[i].max_packet_size) \in BankSizes
             /\ LeastBank(endpoints[i].max_packet_size) <= ENDPOINT_MAX_BUFSIZE[i]
       /\ (pc = "cfg_uecfg1x" /\ pc' # pc) =>
             (/\ pc' = "cfg_alloc_set"
              /\ hw'.ep[cur].UECFG1X.epsize \in 0 .. 6
              /\ 8 * (2 ^ hw'.ep[cur].UECFG1X.epsize)
                    = LeastBank(endpoints[cur].max_packet_size)
              /\ trace'[Len(trace')].reg = "UECFG1X"
              /\ trace'[Len(trace')].val.epsize = hw'.ep[cur].UECFG1X.epsize)]_vars

\* C30 witness: slot 1, allocated with max_packet_size 200, was programmed
\* with EPSIZE = 5 (256 bytes), and slot 2, allocated with max_packet_size 0,
\* has just been programmed with EPSIZE = 0 (8 bytes)
C30_Witness ==
    /\ pc = "cfg_alloc_set"
    /\ cur = 2
    /\ endpoints[1] # None
    /\ endpoints[1].max_packet_size = 200
    /\ hw.ep[1].UECFG1X.epsize = 5
    /\ endpoints[2] # None
    /\ endpoints[2].max_packet_size = 0
    /\ hw.ep[2].UECFG1X.epsize = 0

(***************************************************************************)
(* C31: the registers of an endpoint are accessed only once the endpoint   *)
(* has been selected                                                       *)
(***************************************************************************)
\* the registers UENUM switches between the endpoints
PerEndpointRegisters ==
    {"UECONX", "UECFG0X", "UECFG1X", "UESTA0X", "UEIENX", "UEINTX", "UEBCHX",
     "UEBCLX", "UEDATX"}

\* the positions of tr before k where UENUM is written
SelectionsBefore(tr, k) ==
    {j \in 1 .. (k - 1) : tr[j].reg = "UENUM" /\ tr[j].kind = "write"}

\* the endpoint the call in progress means to reach when it selects index:
\* the one its address names, or one of active_endpoints() for the loops of
\* enable, reset and poll
Intended(index) ==
    IF op \in {"write", "read", "set_stalled", "is_stalled"}
    THEN index = args.ep_addr.index
    ELSE op \in {"enable", "reset", "poll"} /\ index \in active_endpoints

\* the access at k of tr follows a successful selection: the last write of
\* UENUM before it was made with the clock seen running, was read back
\* equal, names the intended endpoint, and is the endpoint accessed
SelectedBefore(tr, k) ==
    /\ SelectionsBefore(tr, k) # {}
    /\ LET j == CHOOSE x \in SelectionsBefore(tr, k) :
                   \A y \in SelectionsBefore(tr, k) : y <= x
       IN  /\ j > 1
           /\ tr[j - 1].kind = "read"
           /\ tr[j - 1].reg = "USBCON"
           /\ tr[j - 1].val.frzclk = 0
           /\ j + 1 < k
           /\ tr[j + 1].kind = "read"
           /\ tr[j + 1].reg = "UENUM"
           /\ tr[j + 1].val = tr[j].val
           /\ tr[j].val.bits \in Slots
           /\ Intended(tr[j].val.bits)
           /\ tr[k].ep = tr[j].val.bits

\* the clock was read frozen at j of tr: the selection that follows fails
SeenFrozen(tr, j) ==
    /\ tr[j].kind = "read"
    /\ tr[j].reg = "USBCON"
    /\ tr[j].val.frzclk = 1

\* C31: in the accesses of one call (one critical section), every access to
\* a per-endpoint register comes after a selection of the intended endpoint
\* that succeeded (UENUM written and read back equal), with no other write
\* of UENUM between the two; once a selection has failed, because the clock
\* is frozen or the index is out of range, the call accesses no per-endpoint
\* register; and a loop selects its endpoints in ascending order
C31_AccessOnlyAfterSelection ==
    /\ \A k \in 1 .. Len(trace) :
          (trace[k].reg \in PerEndpointRegisters) =>
             (/\ SelectedBefore(trace, k)
              /\ \A j \in 1 .. (k - 1) : ~SeenFrozen(trace, j))
    /\ \A k \in 1 .. Len(trace) :
          \A j \in SelectionsBefore(trace, k) :
             (trace[k].reg = "UENUM" /\ trace[k].kind = "write") =>
                (trace[j].val.bits < trace[k].val.bits)
    /\ (/\ op \in {"write", "read", "set_stalled", "is_stalled"}
        /\ args.ep_addr.index >= MAX_ENDPOINTS) =>
          (trace = << >>)

\* is_stalled has selected endpoint 1 of a device that was reset, or
\* suspended and resumed, before, and has read its UECONX
C31_Witness ==
    /\ op = "is_stalled"
    /\ args.ep_addr.index = 1
    /\ Len(trace) = 4
    /\ trace[2].reg = "UENUM"
    /\ trace[2].val.bits = 1
    /\ trace[4].reg = "UECONX"
    /\ trace[4].ep = 1
    /\ hw.UDIEN.suspe = 1

(***************************************************************************)
(* C32: poll on a suspended device                                         *)
(***************************************************************************)
\* suspend has returned and neither resume nor reset has run since: only
\* suspend sets WAKEUPE, and resume and reset clear it
IsSuspended == pc = "idle" /\ hw.UDIEN.wakeupe = 1

\* C32: from suspend() until resume() or reset() is called, a poll returns
\* Suspend only for a VBUSTI with VBUS deasserted, never for SUSPI; a poll
\* that finds WAKEUPI raised and no VBUSTI pending returns Resume and leaves
\* WAKEUPI raised; and WAKEUPI, once raised, stays raised until resume,
\* reset or another suspend is called, so that every such poll returns
\* Resume again
C32_PollWhileSuspended ==
    [][/\ (IsSuspended /\ op' = "poll") =>
             (/\ (ret' = PollSuspend) =>
                    (hw.USBINT.vbusti = 1 /\ hw.USBSTA.vbus = 0)
              /\ (hw.UDINT.wakeupi = 1 /\ hw.USBINT.vbusti = 0) =>
                    (/\ ret' = PollResume
                     /\ hw'.UDINT.wakeupi = 1
                     /\ hw'.UDIEN = hw.UDIEN))
       /\ (/\ IsSuspended
           /\ hw.UDINT.wakeupi = 1
           /\ op' \notin {"resume", "reset", "suspend"}) =>
             (hw'.UDINT.wakeupi = 1 /\ hw'.UDIEN.wakeupe = 1)
      ]_vars

\* SUSPI was raised again while suspend was clearing it, the device is
\* suspended with SUSPI pending, the bus woke, and poll has returned Resume
C32_Witness ==
    /\ op = "poll"
    /\ ret = PollResume
    /\ hw.USBCON.frzclk = 1
    /\ hw.UDIEN.wakeupe = 1
    /\ hw.UDINT.suspi = 1
    /\ hw.UDINT.wakeupi = 1
    /\ hw.USBINT.vbusti = 0

(***************************************************************************)
(* C33: reset on a suspended device                                        *)
(***************************************************************************)
\* the controller has refused the configuration programmed last: CFGOK was
\* read clear, which configure_endpoint asserts against
CfgokRefused(tr) ==
    /\ tr # << >>
    /\ tr[Len(tr)].reg = "UESTA0X"
    /\ tr[Len(tr)].val.cfgok = 0

\* C33: reset returns normally from every state the calls of the stack
\* reach once the device is enabled, a suspended one included: no selection
\* made by reset finds the clock frozen, and reset panics only where the
\* controller refuses a configuration
C33_ResetReturnsNormally ==
    (op = "reset") =>
       (/\ \A j \in 1 .. Len(trace) : ~SeenFrozen(trace, j)
        /\ (pc = "panic") => CfgokRefused(trace))

\* reset was called after suspend: it has cleared EORSTI, its first
\* set_current_endpoint has read FRZCLK = 1 and returned InvalidState, and
\* the unwrap() in reset has panicked before any endpoint was programmed
C33_Witness ==
    /\ op = "reset"
    /\ pc = "panic"
    /\ hw.USBCON.frzclk = 1
    /\ hw.UDIEN.wakeupe = 1
    /\ Len(trace) = 3
    /\ SeenFrozen(trace, 3)

(***************************************************************************)
(* C34: the suspend and wakeup interrupts of a device that was reset       *)
(***************************************************************************)
\* exactly one of SUSPE and WAKEUPE is enabled, and a frozen clock goes
\* with WAKEUPE enabled and SUSPE disabled
OneOfSuspeWakeupe ==
    /\ hw.UDIEN.suspe + hw.UDIEN.wakeupe = 1
    /\ (hw.USBCON.frzclk = 1) =>
          (hw.UDIEN.wakeupe = 1 /\ hw.UDIEN.suspe = 0)

\* the step in which reset returns
ResetReturns == op = "reset" /\ pc = "reset_udien" /\ pc' = "idle"

\* C34: on a device with endpoint 0 allocated, in every state from the
\* return of the first reset after enable on, exactly one of UDIEN.SUSPE and
\* UDIEN.WAKEUPE is enabled, and the clock is frozen only with WAKEUPE
\* enabled and SUSPE disabled: the return of reset leaves the registers so,
\* and no step of the driver or of the controller ends it
C34_NeverFrozenWithoutWakeup ==
    [][/\ ResetReturns => OneOfSuspeWakeupe'
       /\ (enabled /\ endpoints[0] # None /\ OneOfSuspeWakeupe) =>
             OneOfSuspeWakeupe'
      ]_vars

\* the first reset after enable has returned, on a device with a write in
\* flight: SUSPE is enabled, WAKEUPE is not, the clock runs
C34_Witness ==
    /\ op = "reset"
    /\ pc = "idle"
    /\ endpoints[0] # None
    /\ pending_ins # 0
    /\ hw.UDIEN.suspe = 1
    /\ hw.UDIEN.wakeupe = 0
    /\ hw.USBCON.frzclk = 0
    /\ trace[Len(trace)].reg = "UDIEN"

(***************************************************************************)
(* C35: what changes pending_ins                                           *)
(***************************************************************************)
\* the bits of a u8
U8Bits == 0 .. 7

\* the step is a write that returned Ok
IsOkWrite == op' = "write" /\ ret'.ok

\* C35: pending_ins changes only in a write that returns Ok, which sets the
\* bit of the endpoint written and no other, and in a poll, which clears a
\* bit only if the bit was set and the poll reports the endpoint in
\* ep_in_complete; every other step (alloc_ep, enable, reset,
\* set_device_address, read, set_stalled, is_stalled, suspend, resume,
\* force_reset, a write that returns an error, the controller) leaves it as
\* it was; and a bit that is set belongs to an allocated endpoint that is
\* endpoint 0 or has direction In
C35_PendingInsFrame ==
    [][/\ IsOkWrite =>
             (pending_ins' = u8_or_bit(pending_ins, args'.ep_addr.index))
       /\ (op' = "poll" /\ pending_ins' # pending_ins) =>
             (/\ ret'.kind = "Data"
              /\ \A i \in U8Bits :
                    (Bit(pending_ins', i) # Bit(pending_ins, i)) =>
                       (/\ Bit(pending_ins, i) = 1
                        /\ Bit(ret'.ep_in_complete, i) = 1))
       /\ (pending_ins' # pending_ins) => (IsOkWrite \/ op' = "poll")
       /\ \A i \in U8Bits :
             (Bit(pending_ins', i) = 1) =>
                (/\ i \in Slots
                 /\ endpoints'[i] # None
                 /\ (i = 0 \/ endpoints'[i].ep_dir = "In"))
      ]_vars

\* writes to endpoints 0 and 1 were both pending, the host has taken the
\* packet of endpoint 1, and poll has reported endpoint 1 alone in
\* ep_in_complete and cleared its bit alone
C35_Witness ==
    /\ op = "poll"
    /\ ret.kind = "Data"
    /\ ret.ep_in_complete = 2
    /\ pending_ins = 1
    /\ endpoints[1] # None
    /\ endpoints[1].ep_dir = "In"

====
